---------------------------- MODULE Spec2Model ----------------------------
(***************************************************************************)
(* A model of the arena subsystem in src/src/arena.c (the live code above  *)
(* the "#if 0" line): the arena registry, the four block bitmaps of an    *)
(* arena, _mi_arena_alloc_aligned with its placement passes and automatic  *)
(* growth, _mi_arena_free with its purge, and mi_arena_add.                *)
(*                                                                         *)
(* Sizes are bytes. The bitmap primitives (bitmap.h/bitmap.c) and the OS   *)
(* layer are not part of src/; they are modelled from their documented     *)
(* interface: a bitmap operation is one atomic step, an OS call is a       *)
(* nondeterministic outcome.                                               *)
(*                                                                         *)
(* Every thread runs one call at a time; th[t].pc is its position in the   *)
(* call. One action is one atomic step of the code (at most one atomic     *)
(* read-modify-write of shared state).                                     *)
(***************************************************************************)
EXTENDS Integers, Sequences, FiniteSets, TLC

VARIABLES
  mi_arenas,       \* the registry: slot index -> arena descriptor or NULL
  mi_arena_count,  \* the atomic count of used slots
  info_blocks,     \* value of mi_arena_info_blocks() on this platform
  opts,            \* the options store and the OS capabilities
  th,              \* per thread: position and locals of its current call
  live,            \* history: arena ranges returned by alloc and not yet passed to free
  os_committed,    \* history: the blocks of each arena that the OS really backs
  noting           \* history: what is recorded, of "calls", "live", "before"

vars == <<mi_arenas, mi_arena_count, info_blocks, opts, th, live, os_committed, noting>>

---------------------------------------------------------------------------
(* Program constants, scaled down. MI_MAX_ARENAS is 1024 in the source;    *)
(* the block size, chunk width and bitmap size come from headers outside   *)
(* src/ and keep only their relations: MI_ARENA_MAX_OBJ_SIZE is one chunk  *)
(* of blocks, MI_ARENA_MIN_OBJ_SIZE is one block.                          *)

MI_MAX_ARENAS == 6

MI_ARENA_BLOCK_SIZE == 2

MI_ARENA_BLOCK_ALIGN == MI_ARENA_BLOCK_SIZE

MI_BITMAP_CHUNK_BITS == 5

MI_BITMAP_CHUNK_COUNT == 2

MI_BITMAP_MAX_BITS == MI_BITMAP_CHUNK_COUNT * MI_BITMAP_CHUNK_BITS

MI_ARENA_MIN_OBJ_SIZE == MI_ARENA_BLOCK_SIZE

MI_ARENA_MAX_OBJ_SIZE == MI_BITMAP_CHUNK_BITS * MI_ARENA_BLOCK_SIZE

\* width of size_t in the model: sizes are taken modulo 2^SIZE_BITS where
\* the code can overflow (mi_mul_overflow)
SIZE_BITS == 20

SIZE_MAX == (2 ^ SIZE_BITS) - 1

---------------------------------------------------------------------------
(* Threads and the small sets the inputs are drawn from.                   *)

Threads == {1, 2}

NumaNodes == {-1, 0, 1}

NULL == [null |-> TRUE]

Range(idx, n) == idx .. (idx + n - 1)

Min(S) == CHOOSE x \in S : \A y \in S : x <= y

---------------------------------------------------------------------------
(* Arena ids and sizes.                                                    *)

_mi_arena_id_none == 0

mi_arena_id_index(id) == IF id <= 0 THEN MI_MAX_ARENAS ELSE id - 1

mi_arena_id_create(arena_index) == arena_index + 1

\* a plausible slip: exclusivity is not looked at
mi_arena_id_is_suitable_open(arena_id, arena_is_exclusive, req_arena_id) ==
  \/ req_arena_id = 0
  \/ arena_id = req_arena_id

mi_arena_id_is_suitable(arena_id, arena_is_exclusive, req_arena_id) ==
  \/ (~arena_is_exclusive /\ req_arena_id = _mi_arena_id_none)
  \/ arena_id = req_arena_id

_mi_divide_up(size, d) == (size + d - 1) \div d

_mi_align_up(size, d) == _mi_divide_up(size, d) * d

mi_block_count_of_size(size) == _mi_divide_up(size, MI_ARENA_BLOCK_SIZE)

mi_size_of_blocks(bcount) == bcount * MI_ARENA_BLOCK_SIZE

---------------------------------------------------------------------------
(* Bitmaps: a bitmap is the set of indices of its set bits, out of         *)
(* 0 .. MI_BITMAP_MAX_BITS-1, in chunks of MI_BITMAP_CHUNK_BITS bits.      *)

BitmapBits == 0 .. (MI_BITMAP_MAX_BITS - 1)

ChunkOf(idx) == idx \div MI_BITMAP_CHUNK_BITS

\* a run of n bits starting at idx that lies in one chunk and in the bitmap
RunInChunk(idx, n) ==
  /\ n >= 1
  /\ idx + n <= MI_BITMAP_MAX_BITS
  /\ ChunkOf(idx) = ChunkOf(idx + n - 1)

\* the starts of the runs of n set bits of chunk c
ChunkRuns(bitmap, c, n) ==
  { idx \in BitmapBits : /\ ChunkOf(idx) = c
                         /\ RunInChunk(idx, n)
                         /\ Range(idx, n) \subseteq bitmap }

\* the chunks in the order a thread with sequence number tseq visits them
ChunkOrder(tseq, k) == (tseq + k) % MI_BITMAP_CHUNK_COUNT

\* the chunks, by position in the visiting order, that hold a run
ChunkHits(bitmap, tseq, n) ==
  { k \in 0 .. (MI_BITMAP_CHUNK_COUNT - 1) : ChunkRuns(bitmap, ChunkOrder(tseq, k), n) # {} }

\* mi_bitmap_try_find_and_clearN: found?
mi_bitmap_can_find(bitmap, tseq, n) == ChunkHits(bitmap, tseq, n) # {}

\* mi_bitmap_try_find_and_clearN: the start index it claims (lowest index of
\* the first chunk, in visiting order, that holds a run)
mi_bitmap_find_index(bitmap, tseq, n) ==
  Min(ChunkRuns(bitmap, ChunkOrder(tseq, Min(ChunkHits(bitmap, tseq, n))), n))

\* mi_bitmap_xsetN(MI_BIT_SET, ..): the new bitmap
mi_bitmap_setN(bitmap, idx, n) == bitmap \cup (Range(idx, n) \cap BitmapBits)

\* mi_bitmap_xsetN(MI_BIT_CLEAR, ..): the new bitmap
mi_bitmap_clearN(bitmap, idx, n) == bitmap \ Range(idx, n)

\* a plausible slip: one clear bit is enough
mi_bitmap_setN_any_was_clear(bitmap, idx, n) == ~(Range(idx, n) \subseteq bitmap)

\* mi_bitmap_xsetN(MI_BIT_SET, ..) returns: all bits were clear before
mi_bitmap_setN_all_were_clear(bitmap, idx, n) == Range(idx, n) \cap bitmap = {}

\* mi_bitmap_is_xsetN(MI_BIT_SET, ..), and the already_xset out-parameter
mi_bitmap_is_setN(bitmap, idx, n) == Range(idx, n) \subseteq bitmap

---------------------------------------------------------------------------
(* Memory ids and arena descriptors.                                       *)

\* _mi_memid_none / _mi_memid_create(kind): all flags false
_mi_memid_create(kind) ==
  [memkind |-> kind, arena_id |-> 0, block_index |-> 0, is_exclusive |-> FALSE,
   is_pinned |-> FALSE, initially_committed |-> FALSE, initially_zero |-> FALSE]

_mi_memid_none == _mi_memid_create("MI_MEM_NONE")

mi_memid_create_arena(id, is_exclusive, block_index) ==
  [_mi_memid_create("MI_MEM_ARENA") EXCEPT
     !.arena_id = id, !.block_index = block_index, !.is_exclusive = is_exclusive]

mi_memkind_is_os(kind) == kind \in {"MI_MEM_OS", "MI_MEM_OS_HUGE", "MI_MEM_OS_REMAP"}

\* the memid the OS layer returns for a region it allocated
os_memid(commit, is_large, is_zero) ==
  [_mi_memid_create("MI_MEM_OS") EXCEPT
     !.is_pinned = is_large, !.initially_committed = (commit \/ is_large),
     !.initially_zero = is_zero]

\* the memid of mi_manage_os_memory_ex for memory the caller provides
external_memid(is_committed, is_large, is_zero) ==
  [_mi_memid_create("MI_MEM_EXTERNAL") EXCEPT
     !.is_pinned = is_large, !.initially_committed = is_committed,
     !.initially_zero = is_zero]

\* Addresses: memory is cut into regions of ArenaStride bytes; an arena sits
\* at the start of its region and the rest of the region belongs to no
\* arena. Region 0 holds the null address.
ArenaStride == (MI_BITMAP_MAX_BITS + 1) * MI_ARENA_BLOCK_SIZE

RegionStart(r) == r * ArenaStride

\* mi_arena_start: the descriptor sits at the base of the arena
mi_arena_start(arena) == arena.start

\* mi_arena_block_start
mi_arena_block_start(arena, block_index) ==
  mi_arena_start(arena) + mi_size_of_blocks(block_index)

\* mi_manage_os_memory_ex2, lines 563-590: the descriptor it writes, before
\* mi_arena_add gives it an id
mi_arena_init(start, bcount, is_large, numa_node, exclusive, memid, iblocks) ==
  [ start            |-> start,
    id               |-> _mi_arena_id_none,
    memid            |-> memid,
    exclusive        |-> exclusive,
    block_count      |-> bcount,
    numa_node        |-> numa_node,
    is_large         |-> is_large,
    purge_expire     |-> 0,
    blocks_free      |-> mi_bitmap_setN({}, iblocks, bcount - iblocks),
    blocks_committed |-> IF memid.initially_committed
                         THEN mi_bitmap_setN({}, 0, bcount)
                         ELSE mi_bitmap_setN({}, 0, iblocks),
    blocks_dirty     |-> mi_bitmap_setN({}, 0, iblocks),
    blocks_purge     |-> {} ]

\* mi_manage_os_memory_ex2, lines 541-551: the block count is acceptable
mi_manage_bcount_ok(bcount, iblocks) ==
  /\ ~(bcount < iblocks + 1)
  /\ ~(bcount > MI_BITMAP_MAX_BITS)

\* what the OS backs of a fresh arena: everything when it was allocated
\* committed, else the descriptor blocks committed at line 557
os_committed_init(bcount, memid, iblocks) ==
  IF memid.initially_committed THEN 0 .. (bcount - 1) ELSE 0 .. (iblocks - 1)

ArenaIndices == 0 .. (MI_MAX_ARENAS - 1)

\* mi_arena_from_index; a slot index at or past the end of the array reads
\* memory outside it, which the model shows as NULL
ArenaAt(idx) == IF idx \in ArenaIndices THEN mi_arenas[idx] ELSE NULL

\* the region the OS hands out next: one that no registered arena and no
\* arena being registered occupies
OsFreshStart ==
  RegionStart(Min({ r \in 1 .. (2 * MI_MAX_ARENAS + 2) :
                      /\ \A i \in ArenaIndices :
                           mi_arenas[i] = NULL \/ mi_arenas[i].start # RegionStart(r)
                      /\ \A t \in Threads :
                           th[t].new_arena = NULL \/ th[t].new_arena.start # RegionStart(r) }))

\* _mi_arena_contains, lines 494-503: the scan over the slots below
\* mi_arena_count; oob is what a read past the end of mi_arenas yields
\* (TRUE: garbage that passes for an arena holding p)
_mi_arena_contains(p, oob) ==
  \E i \in 0 .. (mi_arena_count - 1) :
    IF i \in ArenaIndices
    THEN /\ mi_arenas[i] # NULL
         /\ mi_arena_start(mi_arenas[i]) <= p
         /\ mi_arena_start(mi_arenas[i]) + mi_size_of_blocks(mi_arenas[i].block_count) > p
    ELSE oob

---------------------------------------------------------------------------
(* mi_arena_reserve: the size of the next arena.                           *)

_mi_clamp(x, lo, hi) == IF x < lo THEN lo ELSE IF x > hi THEN hi ELSE x

\* mi_mul_overflow on size_t
mi_mul_overflow(a, b) == a * b > SIZE_MAX

\* a plausible slip: the size is scaled for every arena_count from 8 on
mi_arena_reserve_size_scaled_on(arena_count, option, has_virtual_reserve, iblocks) ==
  LET r0 == IF ~has_virtual_reserve THEN option \div 4 ELSE option
      r1 == _mi_align_up(r0, MI_ARENA_BLOCK_SIZE)
      multiplier == 2 ^ _mi_clamp(arena_count \div 8, 0, 16)
      r2 == IF arena_count >= 8 /\ ~mi_mul_overflow(multiplier, r1)
            THEN multiplier * r1 ELSE r1
      min_reserve == mi_size_of_blocks(iblocks + 1)
      max_reserve == MI_BITMAP_MAX_BITS * MI_ARENA_BLOCK_SIZE
  IN  IF r2 < min_reserve THEN min_reserve
      ELSE IF r2 > max_reserve THEN max_reserve
      ELSE r2

\* lines 288-313: the size reserved when the registry holds arena_count
\* arenas and the arena_reserve option is option (not 0)
mi_arena_reserve_size(arena_count, option, has_virtual_reserve, iblocks) ==
  LET r0 == IF ~has_virtual_reserve THEN option \div 4 ELSE option
      r1 == _mi_align_up(r0, MI_ARENA_BLOCK_SIZE)
      multiplier == 2 ^ _mi_clamp(arena_count \div 8, 0, 16)
      r2 == IF arena_count >= 8 /\ arena_count <= 128 /\ ~mi_mul_overflow(multiplier, r1)
            THEN multiplier * r1 ELSE r1
      min_reserve == mi_size_of_blocks(iblocks + 1)
      max_reserve == MI_BITMAP_MAX_BITS * MI_ARENA_BLOCK_SIZE
  IN  IF r2 < min_reserve THEN min_reserve
      ELSE IF r2 > max_reserve THEN max_reserve
      ELSE r2

\* a plausible slip: arenas are reserved until the registry is full
mi_arena_reserve_allowed_until_full(req_size, req_arena_id, arena_count, o, iblocks) ==
  /\ ~o.preloading
  /\ req_arena_id = 0
  /\ ~(arena_count >= MI_MAX_ARENAS)
  /\ o.arena_reserve # 0
  /\ ~(mi_arena_reserve_size(arena_count, o.arena_reserve, o.has_virtual_reserve, iblocks) < req_size)

\* lines 281-315: mi_arena_reserve goes on to reserve OS memory
mi_arena_reserve_allowed(req_size, req_arena_id, arena_count, o, iblocks) ==
  /\ ~o.preloading
  /\ req_arena_id = _mi_arena_id_none
  /\ ~(arena_count > MI_MAX_ARENAS - 4)
  /\ o.arena_reserve # 0
  /\ ~(mi_arena_reserve_size(arena_count, o.arena_reserve, o.has_virtual_reserve, iblocks) < req_size)

\* lines 317-320: commit the new arena eagerly?
mi_arena_reserve_commit(o) ==
  IF o.arena_eager_commit = 2 THEN o.has_overcommit
  ELSE o.arena_eager_commit = 1

\* mi_arena_purge_delay
\* a plausible slip: a negative delay counts as no delay
mi_arena_purge_delay_clipped(o) ==
  IF o.purge_delay * o.arena_purge_mult < 0 THEN 0 ELSE o.purge_delay * o.arena_purge_mult

mi_arena_purge_delay(o) == o.purge_delay * o.arena_purge_mult

---------------------------------------------------------------------------
(* The state of a thread between calls.                                    *)

NoPrev == [op |-> "none", p |-> "NULL", arena_index |-> 0, block_index |-> 0,
           bcount |-> 0, free_before |-> {}]

IdleThread ==
  [ pc |-> "idle", op |-> "none",
    \* arguments of _mi_arena_alloc_aligned
    size |-> 0, alignment |-> 0, align_offset |-> 0, commit |-> FALSE,
    allow_large |-> FALSE, req_arena_id |-> 0, numa_node |-> -1,
    \* locals of the allocation
    max_arena |-> 0, pass |-> "none", i |-> 0, bcount |-> 0,
    arena_index |-> 0, block_index |-> 0, new_arena |-> NULL,
    \* results
    memid |-> _mi_memid_none, p |-> "NULL", errno |-> "0", err |-> "none",
    \* result of mi_reserve_os_memory_ex
    ret |-> "none",
    \* the size mi_arena_reserve asks mi_reserve_os_memory_ex for
    arena_reserve |-> 0,
    \* result of _mi_os_commit in mi_arena_try_alloc_at
    os_commit |-> "none",
    \* _mi_os_commit reported zeroed memory (commit_zero, line 193)
    commit_zero |-> FALSE,
    \* arguments of _mi_arena_free
    f_memid |-> _mi_memid_none, f_blocks |-> 0, f_all_committed |-> TRUE,
    \* argument of _mi_arenas_collect
    force_purge |-> FALSE,
    \* argument of mi_manage_os_memory_ex
    start |-> 0,
    \* mi_reserve_huge_os_pages_interleave: pages left, numa_count, pages_per,
    \* pages_mod, the loop variable, node_pages and the requests made so far
    pages |-> 0, numa_count |-> 0, pages_per |-> 0, pages_mod |-> 0, node |-> 0,
    node_pages |-> 0, requests |-> <<>>,
    \* _mi_os_purge was called by this call
    os_purge_called |-> FALSE,
    \* history of the call
    snap_arenas |-> <<>>, snap_count |-> 0, failed |-> {}, eligible |-> {},
    tried |-> FALSE, reserved |-> "no", os_called |-> FALSE, free_before |-> {},
    \* history: the call this thread made before the current one
    prev |-> NoPrev ]

\* a value for the history of a call, when history is recorded
Note(x, default) == IF "calls" \in noting THEN x ELSE default

\* a range that has been claimed and not yet passed to free
LiveRec(arena_index, block_index, bcount) ==
  [arena |-> arena_index, idx |-> block_index, n |-> bcount,
   \* the number of live ranges this one overlapped when it was claimed
   clash |-> Cardinality({r \in live : /\ r.arena = arena_index
                                        /\ Range(r.idx, r.n) \cap Range(block_index, bcount) # {}})]

---------------------------------------------------------------------------
(* _mi_arena_alloc_aligned.                                                *)

\* a plausible slip: the offset is not looked at
mi_arena_admits_any_offset(size, alignment, align_offset, req_arena_id, o) ==
  /\ (~o.disallow_arena_alloc \/ req_arena_id # _mi_arena_id_none)
  /\ size >= MI_ARENA_MIN_OBJ_SIZE
  /\ size <= MI_ARENA_MAX_OBJ_SIZE
  /\ alignment <= MI_ARENA_BLOCK_ALIGN

\* line 337-338: the request is tried in the arenas
mi_arena_admits(size, alignment, align_offset, req_arena_id, o) ==
  /\ (~o.disallow_arena_alloc \/ req_arena_id # _mi_arena_id_none)
  /\ size >= MI_ARENA_MIN_OBJ_SIZE
  /\ size <= MI_ARENA_MAX_OBJ_SIZE
  /\ alignment <= MI_ARENA_BLOCK_ALIGN
  /\ align_offset = 0

\* a plausible slip: the NUMA node is not looked at
mi_arena_is_eligible_any_node(arena, match_numa_node, numa_node, allow_large, req_arena_id) ==
  /\ arena # NULL
  /\ ~(~allow_large /\ arena.is_large)
  /\ mi_arena_id_is_suitable(arena.id, arena.exclusive, req_arena_id)

\* mi_arena_try_alloc_at_id, lines 224-233: the arena may serve the request
mi_arena_is_eligible(arena, match_numa_node, numa_node, allow_large, req_arena_id) ==
  /\ arena # NULL
  /\ ~(~allow_large /\ arena.is_large)
  /\ mi_arena_id_is_suitable(arena.id, arena.exclusive, req_arena_id)
  /\ (req_arena_id = _mi_arena_id_none =>
        LET numa_suitable == (numa_node < 0 \/ arena.numa_node < 0 \/ arena.numa_node = numa_node)
        IN  IF match_numa_node THEN numa_suitable ELSE ~numa_suitable)

\* lines 340-351: after mi_arena_try_alloc returned NULL
AfterTryAlloc(me) ==
  IF me.req_arena_id = _mi_arena_id_none
  THEN [me EXCEPT !.pc = "reserve"]
  ELSE [me EXCEPT !.pc = "fallback"]

\* a plausible slip: after the second pass the first is gone through again
NextTry_again(me) ==
  CASE me.pass = "specific" -> AfterTryAlloc(me)
    [] me.pass = "A" ->
         IF me.i + 1 < me.max_arena THEN [me EXCEPT !.i = me.i + 1]
         ELSE IF me.numa_node >= 0 THEN [me EXCEPT !.pass = "B", !.i = 0]
         ELSE AfterTryAlloc(me)
    [] me.pass = "B" ->
         IF me.i + 1 < me.max_arena THEN [me EXCEPT !.i = me.i + 1]
         ELSE [me EXCEPT !.pass = "A", !.i = 0]
    [] OTHER -> [me EXCEPT !.pc = "fallback"]

\* mi_arena_try_alloc, lines 253-275, and line 349: where the call goes after
\* a failed attempt in arena me.i
NextTry(me) ==
  CASE me.pass = "specific" -> AfterTryAlloc(me)
    [] me.pass = "A" ->
         IF me.i + 1 < me.max_arena THEN [me EXCEPT !.i = me.i + 1]
         ELSE IF me.numa_node >= 0 THEN [me EXCEPT !.pass = "B", !.i = 0]
         ELSE AfterTryAlloc(me)
    [] me.pass = "B" ->
         IF me.i + 1 < me.max_arena THEN [me EXCEPT !.i = me.i + 1]
         ELSE AfterTryAlloc(me)
    [] OTHER -> [me EXCEPT !.pc = "fallback"]

\* lines 329-339 and 247-262: entry, admission filter, load of mi_arena_count
AllocBegin(t, size, alignment, align_offset, commit, allow_large, req_arena_id, numa_node) ==
  /\ th[t].pc = "idle"
  /\ LET me == [IdleThread EXCEPT
                  !.prev = th[t].prev, !.op = "alloc", !.size = size, !.alignment = alignment,
                  !.align_offset = align_offset, !.commit = commit,
                  !.allow_large = allow_large, !.req_arena_id = req_arena_id,
                  !.numa_node = numa_node, !.bcount = mi_block_count_of_size(size),
                  !.snap_arenas = Note(mi_arenas, <<>>),
                  !.snap_count = Note(mi_arena_count, 0)]
         max_arena == mi_arena_count
         in == [me EXCEPT !.tried = TRUE, !.max_arena = max_arena]
     IN th' = [th EXCEPT ![t] =
          IF ~mi_arena_admits(size, alignment, align_offset, req_arena_id, opts)
            THEN [me EXCEPT !.pc = "fallback"]
          ELSE IF max_arena = 0 THEN AfterTryAlloc(in)
          ELSE IF req_arena_id # _mi_arena_id_none
            THEN IF mi_arena_id_index(req_arena_id) < max_arena
                 THEN [in EXCEPT !.pc = "try", !.pass = "specific",
                                 !.i = mi_arena_id_index(req_arena_id)]
                 ELSE AfterTryAlloc(in)
          ELSE [in EXCEPT !.pc = "try", !.pass = "A", !.i = 0]]
  /\ UNCHANGED <<mi_arenas, mi_arena_count, info_blocks, opts, live, os_committed, noting>>

\* mi_arena_try_alloc_at_id + mi_arena_try_alloc_at lines 173-184: one arena
\* is probed; the claim of the free bits is the atomic step
AllocTryAt(t) ==
  /\ th[t].pc = "try"
  /\ LET me == th[t]
         arena == ArenaAt(me.i)
         ok == mi_arena_is_eligible(arena, me.pass # "B", me.numa_node,
                                    me.allow_large, me.req_arena_id)
         found == ok /\ mi_bitmap_can_find(arena.blocks_free, t, me.bcount)
     IN IF found
        THEN LET idx == mi_bitmap_find_index(arena.blocks_free, t, me.bcount)
                 memid0 == [mi_memid_create_arena(arena.id, arena.exclusive, idx)
                              EXCEPT !.is_pinned = arena.memid.is_pinned]
                 memid1 == IF arena.memid.initially_zero
                           THEN [memid0 EXCEPT !.initially_zero =
                                   mi_bitmap_setN_all_were_clear(arena.blocks_dirty, idx, me.bcount)]
                           ELSE memid0
             IN /\ mi_arenas' = [mi_arenas EXCEPT ![me.i] =
                      [arena EXCEPT
                         !.blocks_free = mi_bitmap_clearN(@, idx, me.bcount),
                         !.blocks_dirty = IF arena.memid.initially_zero
                                          THEN mi_bitmap_setN(@, idx, me.bcount) ELSE @]]
                /\ th' = [th EXCEPT ![t] =
                      [me EXCEPT !.pc = "commit", !.arena_index = me.i, !.block_index = idx,
                                 !.memid = memid1, !.p = "ARENA",
                                 !.free_before = IF "before" \in noting
                                                 THEN arena.blocks_free ELSE {},
                                 !.eligible = Note(@ \cup {me.i}, {})]]
                /\ live' = IF "live" \in noting
                           THEN live \cup {LiveRec(me.i, idx, me.bcount)}
                           ELSE live
        ELSE /\ th' = [th EXCEPT ![t] =
                      NextTry([me EXCEPT
                                 !.failed = IF ok THEN Note(@ \cup {me.i}, {}) ELSE @,
                                 !.eligible = IF ok THEN Note(@ \cup {me.i}, {}) ELSE @])]
             /\ UNCHANGED <<mi_arenas, live>>
  /\ UNCHANGED <<mi_arena_count, info_blocks, opts, os_committed, noting>>

\* mi_arena_try_alloc_at lines 186-206: the commit bitmap
AllocCommit(t) ==
  /\ th[t].pc = "commit"
  /\ LET me == th[t]
         arena == mi_arenas[me.arena_index]
         all_already_committed ==
           mi_bitmap_is_setN(arena.blocks_committed, me.block_index, me.bcount)
     IN IF me.commit
        THEN /\ mi_arenas' = [mi_arenas EXCEPT ![me.arena_index].blocks_committed =
                                mi_bitmap_setN(@, me.block_index, me.bcount)]
             /\ th' = [th EXCEPT ![t] =
                        [me EXCEPT !.memid.initially_committed = TRUE,
                                   !.pc = IF all_already_committed THEN "done" ELSE "oscommit"]]
        ELSE /\ th' = [th EXCEPT ![t] =
                        [me EXCEPT !.memid.initially_committed = all_already_committed,
                                   !.pc = "done"]]
             /\ UNCHANGED mi_arenas
  /\ UNCHANGED <<mi_arena_count, info_blocks, opts, live, os_committed, noting>>

\* a plausible slip: the result of _mi_os_commit is not looked at
mi_arena_commit_reported_unchecked(initially_committed, ok) == initially_committed

\* lines 194-196: memid->initially_committed after _mi_os_commit returned ok
mi_arena_commit_reported(initially_committed, ok) ==
  IF ok THEN initially_committed ELSE FALSE

\* lines 194-200: _mi_os_commit succeeds (reporting zeroed memory or not) or fails
AllocOsCommit(t, ok, commit_zero) ==
  /\ th[t].pc = "oscommit"
  /\ LET me == [th[t] EXCEPT
                  !.pc = "done",
                  !.os_commit = IF ok THEN "ok" ELSE "failed",
                  !.commit_zero = ok /\ commit_zero,
                  !.memid.initially_committed = mi_arena_commit_reported(@, ok)]
     IN IF ok
        THEN /\ os_committed' = [os_committed EXCEPT ![me.arena_index] =
                                   @ \cup Range(me.block_index, me.bcount)]
             /\ th' = [th EXCEPT ![t] =
                        [me EXCEPT !.memid.initially_zero = IF commit_zero THEN TRUE ELSE @]]
        ELSE /\ th' = [th EXCEPT ![t] = me]
             /\ UNCHANGED os_committed
  /\ UNCHANGED <<mi_arenas, mi_arena_count, info_blocks, opts, live, noting>>

\* mi_arena_reserve (lines 279-323) down to mi_manage_os_memory_ex2 writing
\* the descriptor: the load of mi_arena_count is the atomic step. The OS
\* allocation succeeds or fails, and may use large pages only if allowed.
AllocReserve(t, os_ok, os_large, os_zero) ==
  /\ th[t].pc = "reserve"
  /\ (os_large => th[t].allow_large)
  /\ LET me == th[t]
         arena_count == mi_arena_count
         allowed == mi_arena_reserve_allowed(me.size, me.req_arena_id, arena_count,
                                             opts, info_blocks)
         size == _mi_align_up(mi_arena_reserve_size(arena_count, opts.arena_reserve,
                                  opts.has_virtual_reserve, info_blocks),
                              MI_ARENA_BLOCK_SIZE)
         memid == os_memid(mi_arena_reserve_commit(opts), os_large, os_zero)
         bcount == size \div MI_ARENA_BLOCK_SIZE
     IN th' = [th EXCEPT ![t] =
          IF ~allowed THEN [me EXCEPT !.pc = "fallback", !.reserved = "refused"]
          ELSE IF ~os_ok \/ ~mi_manage_bcount_ok(bcount, info_blocks)
            THEN [me EXCEPT !.pc = "fallback", !.reserved = "failed", !.os_called = TRUE]
          ELSE [me EXCEPT !.pc = "add", !.os_called = TRUE,
                          !.new_arena = mi_arena_init(OsFreshStart, bcount, memid.is_pinned, -1, FALSE,
                                                      memid, info_blocks)]]
  /\ UNCHANGED <<mi_arenas, mi_arena_count, info_blocks, opts, live, os_committed, noting>>

\* what follows mi_reserve_huge_os_pages_at returning err: the caller gets
\* it, or the loop of mi_reserve_huge_os_pages_interleave (lines 741-750)
\* stops on an error and else goes on with the next node
AfterHugeAt(me, err) ==
  IF me.op = "huge_at" \/ err # "0"
  THEN [me EXCEPT !.pc = "done", !.ret = err]
  ELSE [me EXCEPT !.pc = "interleave",
                  !.pages = IF @ < me.node_pages THEN 0 ELSE @ - me.node_pages,
                  !.node = @ + 1]

\* what follows a failed mi_arena_add: mi_reserve_os_memory_ex frees the
\* memory and mi_arena_reserve returns false
AfterAddFailed(me) ==
  IF me.op = "reserve"
  THEN [me EXCEPT !.pc = "done", !.ret = "ENOMEM", !.new_arena = NULL]
  ELSE IF me.op = "manage"
  THEN [me EXCEPT !.pc = "done", !.ret = "false", !.new_arena = NULL]
  ELSE IF me.op \in {"huge_at", "interleave"}
  THEN AfterHugeAt([me EXCEPT !.new_arena = NULL], "ENOMEM")
  ELSE [me EXCEPT !.pc = "fallback", !.reserved = "failed", !.new_arena = NULL]

\* what follows a successful mi_arena_add: line 348 probes the new arena
AfterAdded(me, idx) ==
  IF me.op = "reserve"
  THEN [me EXCEPT !.pc = "done", !.ret = "0", !.new_arena = NULL]
  ELSE IF me.op = "manage"
  THEN [me EXCEPT !.pc = "done", !.ret = "true", !.new_arena = NULL]
  ELSE IF me.op \in {"huge_at", "interleave"}
  THEN AfterHugeAt([me EXCEPT !.new_arena = NULL], "0")
  ELSE [me EXCEPT !.pc = "try", !.pass = "G", !.i = idx, !.reserved = "yes", !.new_arena = NULL]

\* mi_arena_add line 515: the atomic increment that hands out the slot index
ArenaAddIncrement(t) ==
  /\ th[t].pc = "add"
  /\ mi_arena_count' = mi_arena_count + 1
  /\ th' = [th EXCEPT ![t] =
        [th[t] EXCEPT !.arena_index = mi_arena_count,
                      !.pc = IF mi_arena_count >= MI_MAX_ARENAS
                             THEN "add_rollback" ELSE "add_publish"]]
  /\ UNCHANGED <<mi_arenas, info_blocks, opts, live, os_committed, noting>>

\* a plausible slip: the count is left as the increment made it
mi_arena_add_rollback_kept(count) == count

\* mi_arena_add line 517: the count after the failed add
mi_arena_add_rollback(count) == count - 1

\* mi_arena_add lines 516-519: the registry is full
ArenaAddRollback(t) ==
  /\ th[t].pc = "add_rollback"
  /\ mi_arena_count' = mi_arena_add_rollback(mi_arena_count)
  /\ th' = [th EXCEPT ![t] = AfterAddFailed(th[t])]
  /\ UNCHANGED <<mi_arenas, info_blocks, opts, live, os_committed, noting>>

\* a plausible slip: the slot is published with the id not yet written
mi_arena_add_id_unset(i) == _mi_arena_id_none

\* mi_arena_add line 521: the id of the arena handed slot i
mi_arena_add_id(i) == mi_arena_id_create(i)

\* mi_arena_add lines 520-524: the id is written, then the slot is published
ArenaAddPublish(t) ==
  /\ th[t].pc = "add_publish"
  /\ LET me == th[t]
         idx == me.arena_index
         arena == [me.new_arena EXCEPT !.id = mi_arena_add_id(idx)]
     IN /\ mi_arenas' = [mi_arenas EXCEPT ![idx] = arena]
        /\ os_committed' = [os_committed EXCEPT ![idx] =
                              os_committed_init(arena.block_count, arena.memid, info_blocks)]
        /\ th' = [th EXCEPT ![t] = AfterAdded(me, idx)]
  /\ UNCHANGED <<mi_arena_count, info_blocks, opts, live, noting>>

\* mi_reserve_os_memory_ex (lines 605-611) down to mi_manage_os_memory_ex2
\* writing the descriptor: OS memory is allocated for a new arena
ReserveBegin(t, size, commit, allow_large, exclusive, os_ok, os_large) ==
  /\ th[t].pc = "idle"
  /\ (os_large => allow_large)
  /\ LET me == [IdleThread EXCEPT
                  !.prev = th[t].prev, !.op = "reserve", !.size = size, !.commit = commit,
                  !.allow_large = allow_large,
                  !.snap_arenas = Note(mi_arenas, <<>>),
                  !.snap_count = Note(mi_arena_count, 0)]
         memid == os_memid(commit, os_large, FALSE)
         bcount == _mi_align_up(size, MI_ARENA_BLOCK_SIZE) \div MI_ARENA_BLOCK_SIZE
     IN th' = [th EXCEPT ![t] =
          IF ~os_ok THEN [me EXCEPT !.pc = "done", !.ret = "ENOMEM"]
          ELSE IF ~mi_manage_bcount_ok(bcount, info_blocks)
            THEN [me EXCEPT !.pc = "done", !.ret = "ENOMEM", !.os_called = TRUE]
          ELSE [me EXCEPT !.pc = "add", !.os_called = TRUE,
                          !.new_arena = mi_arena_init(OsFreshStart, bcount, memid.is_pinned, -1, exclusive,
                                                      memid, info_blocks)]]
  /\ UNCHANGED <<mi_arenas, mi_arena_count, info_blocks, opts, live, os_committed, noting>>

\* a plausible slip: the alignment of the start is not looked at
mi_manage_rejects_unaligned_ok(start, size, iblocks) ==
  \/ start = 0
  \/ ~mi_manage_bcount_ok(size \div MI_ARENA_BLOCK_SIZE, iblocks)

\* mi_manage_os_memory_ex2, lines 531-551: the region is refused
mi_manage_rejects(start, size, iblocks) ==
  \/ start = 0
  \/ start % MI_ARENA_BLOCK_SIZE # 0
  \/ ~mi_manage_bcount_ok(size \div MI_ARENA_BLOCK_SIZE, iblocks)

\* mi_manage_os_memory_ex (lines 596-602) down to mi_manage_os_memory_ex2
\* writing the descriptor of the region the caller provides
ManageBegin(t, start, size, is_committed, is_large, is_zero, numa_node, exclusive) ==
  /\ th[t].pc = "idle"
  /\ LET me == [IdleThread EXCEPT
                  !.prev = th[t].prev, !.op = "manage", !.start = start, !.size = size,
                  !.snap_arenas = Note(mi_arenas, <<>>),
                  !.snap_count = Note(mi_arena_count, 0)]
         memid == external_memid(is_committed, is_large, is_zero)
         bcount == size \div MI_ARENA_BLOCK_SIZE
     IN th' = [th EXCEPT ![t] =
          IF mi_manage_rejects(start, size, info_blocks)
          THEN [me EXCEPT !.pc = "done", !.ret = "false"]
          ELSE [me EXCEPT !.pc = "add",
                          !.new_arena = mi_arena_init(start, bcount, is_large, numa_node,
                                                      exclusive, memid, info_blocks)]]
  /\ UNCHANGED <<mi_arenas, mi_arena_count, info_blocks, opts, live, os_committed, noting>>

---------------------------------------------------------------------------
(* Huge OS pages.                                                          *)

\* blocks in one huge OS page
HugePageBlocks == 2

\* _mi_os_numa_node_count()
OsNumaNodeCount == 2

\* the memid _mi_os_alloc_huge_os_pages returns
os_huge_memid ==
  [_mi_memid_create("MI_MEM_OS_HUGE") EXCEPT
     !.is_pinned = TRUE, !.initially_committed = TRUE, !.initially_zero = TRUE]

\* lines 703-704: the node the pages are asked from
mi_huge_numa_node(numa_node) ==
  IF numa_node < -1 THEN -1
  ELSE IF numa_node >= 0 THEN numa_node % OsNumaNodeCount
  ELSE numa_node

\* a plausible slip: a request of no pages goes on to the OS
mi_huge_no_pages_ignored(pages) == FALSE

\* line 702: nothing is asked for
mi_huge_no_pages(pages) == pages = 0

\* mi_reserve_huge_os_pages_at_ex (lines 700-719) down to
\* mi_manage_os_memory_ex2 writing the descriptor; the OS reserved
\* pages_reserved of the pages asked for
mi_reserve_huge_os_pages_at_ex(me, pages, numa_node, exclusive, pages_reserved) ==
  IF mi_huge_no_pages(pages) THEN AfterHugeAt(me, "0")
  ELSE IF pages_reserved = 0
  THEN AfterHugeAt([me EXCEPT !.os_called = TRUE], "ENOMEM")
  ELSE LET hsize == pages_reserved * HugePageBlocks * MI_ARENA_BLOCK_SIZE
           bcount == hsize \div MI_ARENA_BLOCK_SIZE
       IN  IF ~mi_manage_bcount_ok(bcount, info_blocks)
           THEN AfterHugeAt([me EXCEPT !.os_called = TRUE], "ENOMEM")
           ELSE [me EXCEPT !.pc = "add", !.os_called = TRUE,
                           !.new_arena = mi_arena_init(OsFreshStart, bcount, TRUE,
                                                       mi_huge_numa_node(numa_node),
                                                       exclusive, os_huge_memid,
                                                       info_blocks)]

\* mi_reserve_huge_os_pages_at
HugeAtBegin(t, pages, numa_node, pages_reserved) ==
  /\ th[t].pc = "idle"
  /\ pages_reserved <= pages
  /\ LET me == [IdleThread EXCEPT
                  !.prev = th[t].prev, !.op = "huge_at", !.size = pages, !.pages = pages,
                  !.node_pages = pages, !.numa_node = numa_node,
                  !.snap_arenas = Note(mi_arenas, <<>>),
                  !.snap_count = Note(mi_arena_count, 0)]
     IN th' = [th EXCEPT ![t] =
                 mi_reserve_huge_os_pages_at_ex(me, pages, numa_node, FALSE, pages_reserved)]
  /\ UNCHANGED <<mi_arenas, mi_arena_count, info_blocks, opts, live, os_committed, noting>>

\* a plausible slip: the remainder goes to the last nodes
mi_interleave_node_pages_last(pages_per, pages_mod, numa_node, numa_count) ==
  IF numa_node >= numa_count - pages_mod THEN pages_per + 1 ELSE pages_per

\* lines 739-740: node_pages
mi_interleave_node_pages(pages_per, pages_mod, numa_node, numa_count) ==
  IF numa_node < pages_mod THEN pages_per + 1 ELSE pages_per

\* mi_reserve_huge_os_pages_interleave, lines 727-738
InterleaveBegin(t, pages, numa_nodes) ==
  /\ th[t].pc = "idle"
  /\ LET numa_count == IF numa_nodes > 0 THEN numa_nodes ELSE OsNumaNodeCount
         me == [IdleThread EXCEPT
                  !.prev = th[t].prev, !.op = "interleave", !.size = pages,
                  !.pages = pages, !.numa_count = numa_count,
                  !.snap_arenas = Note(mi_arenas, <<>>),
                  !.snap_count = Note(mi_arena_count, 0)]
     IN th' = [th EXCEPT ![t] =
          IF pages = 0 THEN [me EXCEPT !.pc = "done", !.ret = "0"]
          ELSE [me EXCEPT !.pc = "interleave",
                          !.pages_per = pages \div numa_count,
                          !.pages_mod = pages % numa_count]]
  /\ UNCHANGED <<mi_arenas, mi_arena_count, info_blocks, opts, live, os_committed, noting>>

\* lines 738-752: one turn of the loop, or its end
InterleaveStep(t, pages_reserved) ==
  /\ th[t].pc = "interleave"
  /\ LET me == th[t]
         node_pages == mi_interleave_node_pages(me.pages_per, me.pages_mod, me.node,
                                                me.numa_count)
     IN IF me.node < me.numa_count /\ me.pages > 0
        THEN /\ pages_reserved <= node_pages
             /\ th' = [th EXCEPT ![t] =
                  mi_reserve_huge_os_pages_at_ex(
                    [me EXCEPT !.node_pages = node_pages,
                               !.requests = Append(@, <<me.node, node_pages>>)],
                    node_pages, me.node, FALSE, pages_reserved)]
        ELSE /\ pages_reserved = 0
             /\ th' = [th EXCEPT ![t] = [me EXCEPT !.pc = "done", !.ret = "0"]]
  /\ UNCHANGED <<mi_arenas, mi_arena_count, info_blocks, opts, live, os_committed, noting>>

---------------------------------------------------------------------------
(* _mi_arena_unsafe_destroy_all.                                           *)

\* a plausible slip: the count is left alone
mi_arenas_unsafe_destroy_count_kept(count, max_arena) == count

\* lines 476-478: mi_arena_count after the compare-and-swap to new_max_arena
mi_arenas_unsafe_destroy_count(count, max_arena) ==
  IF count = max_arena THEN 0 ELSE count

\* lines 466-473: a slot below max_arena after the loop went over it
mi_arenas_unsafe_destroy_slot(arena) ==
  IF arena # NULL /\ mi_memkind_is_os(arena.memid.memkind) THEN NULL ELSE arena

\* _mi_arena_unsafe_destroy_all (lines 488-491): mi_arenas_unsafe_destroy
\* and the forced collect, called while no other thread uses the arenas
DestroyAll(t) ==
  /\ th[t].pc = "idle"
  /\ LET max_arena == mi_arena_count
         delay == mi_arena_purge_delay(opts)
         me == [IdleThread EXCEPT
                  !.prev = th[t].prev, !.op = "destroy", !.pc = "done",
                  !.max_arena = max_arena,
                  !.snap_arenas = Note(mi_arenas, <<>>),
                  !.snap_count = Note(mi_arena_count, 0)]
         count == mi_arenas_unsafe_destroy_count(mi_arena_count, max_arena)
     IN /\ mi_arenas' = [i \in ArenaIndices |->
                           IF i < max_arena THEN mi_arenas_unsafe_destroy_slot(mi_arenas[i])
                           ELSE mi_arenas[i]]
        /\ os_committed' = [i \in ArenaIndices |->
                              IF mi_arenas'[i] = NULL THEN {} ELSE os_committed[i]]
        /\ mi_arena_count' = count
        /\ th' = [th EXCEPT ![t] =
             [me EXCEPT !.err = IF ~opts.preloading /\ delay > 0 /\ count # 0
                                THEN "purging not yet implemented" ELSE @]]
  /\ UNCHANGED <<info_blocks, opts, live, noting>>

\* a plausible slip: only the option is looked at
mi_arena_os_denied_option_only(o, req_arena_id) == o.disallow_os_alloc

\* line 356: the request may not go to the OS
mi_arena_os_denied(o, req_arena_id) ==
  o.disallow_os_alloc \/ req_arena_id # _mi_arena_id_none

\* lines 355-367: no arena served the request
AllocFallback(t, os_ok) ==
  /\ th[t].pc = "fallback"
  /\ LET me == th[t]
     IN th' = [th EXCEPT ![t] =
          IF mi_arena_os_denied(opts, me.req_arena_id)
            THEN [me EXCEPT !.pc = "done", !.errno = "ENOMEM", !.p = "NULL"]
          ELSE IF os_ok
            THEN [me EXCEPT !.pc = "done", !.p = "OS", !.os_called = TRUE,
                            !.memid = os_memid(me.commit, FALSE, TRUE)]
          ELSE [me EXCEPT !.pc = "done", !.p = "NULL", !.os_called = TRUE]]
  /\ UNCHANGED <<mi_arenas, mi_arena_count, info_blocks, opts, live, os_committed, noting>>

\* the call has returned; the thread is free for its next call
Return(t) ==
  /\ th[t].pc = "done"
  /\ th' = [th EXCEPT ![t] = IdleThread]
  /\ UNCHANGED <<mi_arenas, mi_arena_count, info_blocks, opts, live, os_committed, noting>>

\* the same, remembering the call for the history of the next one
ReturnNoted(t) ==
  /\ th[t].pc = "done"
  /\ th' = [th EXCEPT ![t] =
        [IdleThread EXCEPT !.prev =
           [op |-> th[t].op, p |-> th[t].p, arena_index |-> th[t].arena_index,
            block_index |-> th[t].block_index, bcount |-> th[t].bcount,
            free_before |-> th[t].free_before]]]
  /\ UNCHANGED <<mi_arenas, mi_arena_count, info_blocks, opts, live, os_committed, noting>>

\* the same, remembering the arguments and the outcome of the call
ReturnKept(t) ==
  /\ th[t].pc = "done"
  /\ th' = [th EXCEPT ![t] =
        [IdleThread EXCEPT !.prev =
           [op |-> th[t].op, p |-> th[t].p, arena_index |-> th[t].arena_index,
            block_index |-> th[t].block_index, bcount |-> th[t].bcount,
            commit |-> th[t].commit, f_memid |-> th[t].f_memid,
            f_blocks |-> th[t].f_blocks, err |-> th[t].err,
            force_purge |-> th[t].force_purge]]]
  /\ UNCHANGED <<mi_arenas, mi_arena_count, info_blocks, opts, live, os_committed, noting>>

---------------------------------------------------------------------------
(* _mi_arena_free of a range with arena provenance.                        *)

\* a plausible slip: only the upper end is checked
mi_arena_free_invalid_block_upper(block_idx, arena, iblocks) ==
  block_idx > arena.block_count

\* lines 417-420: the block index is refused
mi_arena_free_invalid_block(block_idx, arena, iblocks) ==
  block_idx <= iblocks \/ block_idx > arena.block_count

\* lines 400-430: the arena is looked up, the range checked, and a partially
\* committed range is marked uncommitted
FreeBegin(t, memid, blocks, all_committed) ==
  /\ th[t].pc = "idle"
  /\ LET arena_idx == mi_arena_id_index(memid.arena_id)
         block_idx == memid.block_index
         arena == ArenaAt(arena_idx)
         me == [IdleThread EXCEPT
                  !.prev = th[t].prev, !.op = "free", !.f_memid = memid, !.f_blocks = blocks,
                  !.f_all_committed = all_committed, !.arena_index = arena_idx,
                  !.block_index = block_idx,
                  !.snap_arenas = Note(mi_arenas, <<>>),
                  !.snap_count = Note(mi_arena_count, 0)]
     IN /\ live' = { r \in live : ~(r.arena = arena_idx /\ r.idx = block_idx /\ r.n = blocks) }
        /\ IF arena = NULL
           THEN /\ th' = [th EXCEPT ![t] = [me EXCEPT !.pc = "done", !.err = "invalid arena"]]
                /\ UNCHANGED mi_arenas
           ELSE IF mi_arena_free_invalid_block(block_idx, arena, info_blocks)
           THEN /\ th' = [th EXCEPT ![t] = [me EXCEPT !.pc = "done", !.err = "invalid arena block"]]
                /\ UNCHANGED mi_arenas
           ELSE IF arena.memid.is_pinned \/ arena.memid.initially_committed
           THEN /\ th' = [th EXCEPT ![t] = [me EXCEPT !.pc = "release"]]
                /\ UNCHANGED mi_arenas
           ELSE /\ th' = [th EXCEPT ![t] = [me EXCEPT !.pc = "purge"]]
                /\ mi_arenas' =
                     IF ~all_committed
                     THEN [mi_arenas EXCEPT ![arena_idx].blocks_committed =
                             \* line 429 passes (blocks, block_idx) as (idx, n)
                             mi_bitmap_clearN(@, blocks, block_idx)]
                     ELSE mi_arenas
  /\ UNCHANGED <<mi_arena_count, info_blocks, opts, os_committed, noting>>

\* _mi_os_purge / _mi_os_purge_ex: the purge decommits (and the range must
\* be committed again before use)
os_purge_needs_recommit(o) == o.purge_decommits /\ ~o.preloading

\* a plausible slip: the delayed branch marks the range for a later purge
\* and nothing unmarks it when the blocks are allocated again
mi_arena_schedule_purge_delayed_marking(blocks_purge, block_idx, blocks) ==
  mi_bitmap_setN(blocks_purge, block_idx, blocks)

\* lines 826-829: blocks_purge after the delayed branch of
\* mi_arena_schedule_purge, which only reports "purging not yet implemented"
mi_arena_schedule_purge_delayed(blocks_purge, block_idx, blocks) == blocks_purge

\* mi_arena_schedule_purge (lines 818-830) with mi_arena_purge (787-813)
FreePurge(t) ==
  /\ th[t].pc = "purge"
  /\ LET me == th[t]
         delay == mi_arena_purge_delay(opts)
         needs_recommit == os_purge_needs_recommit(opts)
     IN IF delay < 0
        THEN /\ th' = [th EXCEPT ![t] = [me EXCEPT !.pc = "release"]]
             /\ UNCHANGED <<mi_arenas, os_committed>>
        ELSE IF opts.preloading \/ delay = 0
        THEN /\ th' = [th EXCEPT ![t] = [me EXCEPT !.pc = "release",
                                                     !.os_purge_called = TRUE]]
             /\ os_committed' =
                  IF needs_recommit
                  THEN [os_committed EXCEPT ![me.arena_index] =
                          @ \ Range(me.block_index, me.f_blocks)]
                  ELSE os_committed
             /\ mi_arenas' = [mi_arenas EXCEPT ![me.arena_index] =
                  [@ EXCEPT
                     \* lines 807 and 811 pass (blocks, block_idx) as (idx, n)
                     !.blocks_purge = mi_bitmap_clearN(@, me.f_blocks, me.block_index),
                     !.blocks_committed =
                        IF needs_recommit
                        THEN mi_bitmap_clearN(@, me.f_blocks, me.block_index)
                        ELSE @]]
        ELSE /\ th' = [th EXCEPT ![t] =
                        [me EXCEPT !.pc = "release", !.err = "purging not yet implemented"]]
             /\ mi_arenas' = [mi_arenas EXCEPT ![me.arena_index].blocks_purge =
                  mi_arena_schedule_purge_delayed(@, me.block_index, me.f_blocks)]
             /\ UNCHANGED os_committed
  /\ UNCHANGED <<mi_arena_count, info_blocks, opts, live, noting>>

\* a plausible slip: the block after the range is released with it
mi_arena_free_bits_wide(bitmap, block_idx, blocks) ==
  mi_bitmap_setN(bitmap, block_idx, blocks + 1)

\* a plausible slip: the arguments in the order of lines 429, 807 and 811
mi_arena_free_bits_swapped(bitmap, block_idx, blocks) ==
  mi_bitmap_setN(bitmap, blocks, block_idx)

\* a plausible slip: the range starts one block early
mi_arena_free_bits_early(bitmap, block_idx, blocks) ==
  mi_bitmap_setN(bitmap, block_idx - 1, blocks)

\* line 445: the free bitmap after the range is released
mi_arena_free_bits(bitmap, block_idx, blocks) ==
  mi_bitmap_setN(bitmap, block_idx, blocks)

\* a plausible slip: the result of the bitmap operation is not looked at
mi_arena_free_all_inuse_unchecked(bitmap, block_idx, blocks) == TRUE

\* line 445: all_inuse, the result of setting the free bits
mi_arena_free_all_inuse(bitmap, block_idx, blocks) ==
  mi_bitmap_setN_all_were_clear(bitmap, block_idx, blocks)

\* lines 444-457: the free bits are set; a range that was not wholly in use
\* is a double free
FreeRelease(t) ==
  /\ th[t].pc = "release"
  /\ LET me == th[t]
         arena == mi_arenas[me.arena_index]
         all_inuse == mi_arena_free_all_inuse(arena.blocks_free, me.block_index, me.f_blocks)
     IN /\ mi_arenas' = [mi_arenas EXCEPT ![me.arena_index].blocks_free =
                           mi_arena_free_bits(@, me.block_index, me.f_blocks)]
        /\ th' = [th EXCEPT ![t] =
             [me EXCEPT !.pc = "done",
                        !.err = IF ~all_inuse THEN "already freed arena block"
                                ELSE IF ~opts.preloading /\ mi_arena_purge_delay(opts) > 0
                                        /\ mi_arena_count # 0
                                     THEN "purging not yet implemented"
                                ELSE @]]
  /\ UNCHANGED <<mi_arena_count, info_blocks, opts, live, os_committed, noting>>

---------------------------------------------------------------------------
(* _mi_arenas_collect.                                                     *)

\* a plausible slip: the pass marks what is free as not committed
mi_arenas_try_purge_visit_decommitting(arena, force, delay) ==
  [arena EXCEPT !.blocks_committed = @ \ arena.blocks_free]

\* a plausible slip: the pass arms purge_expire of an arena that has none
\* pending and disarms it otherwise
mi_arenas_try_purge_visit_rearming(arena, force, delay) ==
  [arena EXCEPT !.purge_expire = IF @ = 0 THEN delay ELSE 0]

\* lines 836-842: an arena after mi_arenas_try_purge went by: the pass only
\* reports "purging not yet implemented"
mi_arenas_try_purge_visit(arena, force, delay) == arena

\* _mi_arenas_collect (lines 482-484) with mi_arenas_try_purge (833-843)
Collect(t, force_purge) ==
  /\ th[t].pc = "idle"
  /\ LET delay == mi_arena_purge_delay(opts)
         max_arena == mi_arena_count
         me == [IdleThread EXCEPT !.prev = th[t].prev, !.op = "collect", !.pc = "done",
                                  !.force_purge = force_purge]
     IN IF opts.preloading \/ delay <= 0 \/ max_arena = 0
        THEN /\ th' = [th EXCEPT ![t] = me]
             /\ UNCHANGED mi_arenas
        ELSE /\ th' = [th EXCEPT ![t] = [me EXCEPT !.err = "purging not yet implemented"]]
             /\ mi_arenas' = [i \in ArenaIndices |->
                  IF mi_arenas[i] # NULL
                  THEN mi_arenas_try_purge_visit(mi_arenas[i], force_purge, delay)
                  ELSE mi_arenas[i]]
  /\ UNCHANGED <<mi_arena_count, info_blocks, opts, live, os_committed, noting>>

---------------------------------------------------------------------------
(* Initial states: registries as mi_reserve_os_memory_ex and               *)
(* mi_manage_os_memory_ex leave them, before any allocation.               *)

\* an arena as mi_manage_os_memory_ex registers it in slot idx
ManagedArena(idx, c, iblocks) ==
  [mi_arena_init(RegionStart(idx + 1), c.bcount, c.is_large, c.numa_node, c.exclusive,
                 external_memid(c.is_committed, c.is_large, c.is_zero), iblocks)
     EXCEPT !.id = mi_arena_id_create(idx)]

ArenaCfg(bcount, numa_node, exclusive, is_large, is_committed, is_zero) ==
  [bcount |-> bcount, numa_node |-> numa_node, exclusive |-> exclusive,
   is_large |-> is_large, is_committed |-> is_committed, is_zero |-> is_zero]

Options(arena_reserve, eager_commit, purge_delay, disallow_arena_alloc, disallow_os_alloc) ==
  [arena_reserve |-> arena_reserve, has_virtual_reserve |-> TRUE, has_overcommit |-> FALSE,
   arena_eager_commit |-> eager_commit, purge_delay |-> purge_delay, arena_purge_mult |-> 1,
   purge_decommits |-> TRUE, disallow_arena_alloc |-> disallow_arena_alloc,
   disallow_os_alloc |-> disallow_os_alloc, preloading |-> FALSE]

InitWith(cfgs, o, iblocks, note) ==
  /\ info_blocks = iblocks
  /\ opts = o
  /\ mi_arena_count = Len(cfgs)
  /\ mi_arenas = [i \in ArenaIndices |->
                    IF i < Len(cfgs) THEN ManagedArena(i, cfgs[i + 1], iblocks) ELSE NULL]
  /\ os_committed = [i \in ArenaIndices |->
                       IF i < Len(cfgs)
                       THEN os_committed_init(cfgs[i + 1].bcount,
                              external_memid(cfgs[i + 1].is_committed, cfgs[i + 1].is_large,
                                             cfgs[i + 1].is_zero), iblocks)
                       ELSE {}]
  /\ th = [t \in Threads |-> IdleThread]
  /\ live = {}
  /\ noting = note

---------------------------------------------------------------------------
(* Concurrent allocation and free on one shared arena: every thread        *)
(* allocates and frees ranges that alloc returned, each at most once.      *)

\* blocks of the shared arena
ConcBlocks == 5

ConcSizes == {MI_ARENA_BLOCK_SIZE, 2 * MI_ARENA_BLOCK_SIZE}

\* the range has been returned to its caller
Returned(r) ==
  \A t \in Threads :
    ~(/\ th[t].pc \in {"commit", "oscommit"}
      /\ th[t].arena_index = r.arena
      /\ th[t].block_index = r.idx)

\* _mi_arena_free of a range that alloc returned, with its size and memid
FreeValid(t) ==
  \E r \in live : \E all_committed \in {TRUE} :
    /\ Returned(r)
    /\ FreeBegin(t, mi_memid_create_arena(mi_arena_id_create(r.arena),
                                          mi_arenas[r.arena].exclusive, r.idx),
                 r.n, all_committed)

ConcInit ==
  InitWith(<<ArenaCfg(ConcBlocks, -1, FALSE, FALSE, FALSE, FALSE)>>,
           Options(0, 2, 0, FALSE, FALSE), 1, {"live"})

ConcNext ==
  \E t \in Threads :
    \/ \E size \in ConcSizes : \E commit \in BOOLEAN :
         AllocBegin(t, size, MI_ARENA_BLOCK_ALIGN, 0, commit, FALSE, _mi_arena_id_none, -1)
    \/ AllocTryAt(t)
    \/ AllocCommit(t)
    \/ AllocOsCommit(t, TRUE, FALSE)
    \/ AllocReserve(t, TRUE, FALSE, TRUE)
    \/ AllocFallback(t, TRUE)
    \/ Return(t)
    \/ FreeValid(t)
    \/ FreePurge(t)
    \/ FreeRelease(t)

SpecConc == ConcInit /\ [][ConcNext]_vars

---------------------------------------------------------------------------
(* One thread calling alloc and free on registries with NUMA-bound, large, *)
(* exclusive and wide arenas; the history of every call is recorded.       *)

\* blocks of a small arena
SeqBlocks == 3

\* arenas bound to NUMA nodes 0 and 1
NumaRegistry ==
  <<ArenaCfg(SeqBlocks, 0, FALSE, FALSE, TRUE, FALSE),
    ArenaCfg(SeqBlocks, 1, FALSE, FALSE, TRUE, FALSE)>>

\* an exclusive arena and an open one
ExclusiveRegistry ==
  <<ArenaCfg(SeqBlocks, -1, TRUE, FALSE, TRUE, FALSE),
    ArenaCfg(SeqBlocks, 0, FALSE, FALSE, TRUE, FALSE)>>

\* an arena of large pages and an arena of two full chunks
LargeRegistry ==
  <<ArenaCfg(SeqBlocks, 1, FALSE, TRUE, TRUE, FALSE),
    ArenaCfg(MI_BITMAP_MAX_BITS, -1, FALSE, FALSE, TRUE, FALSE)>>

\* Options: arena_reserve, arena_eager_commit, purge_delay,
\* disallow_arena_alloc, disallow_os_alloc
GrowingOptions == Options(3 * MI_ARENA_BLOCK_SIZE, 1, 0, FALSE, FALSE)

NoOsOptions == Options(3 * MI_ARENA_BLOCK_SIZE, 1, 0, FALSE, TRUE)

NoArenaOptions == Options(0, 1, 0, TRUE, FALSE)

\* the registries and options the sequential runs start from
SeqInits ==
  { <<NumaRegistry, GrowingOptions>>, <<ExclusiveRegistry, GrowingOptions>>,
    <<ExclusiveRegistry, NoOsOptions>>, <<LargeRegistry, NoOsOptions>>,
    <<NumaRegistry, NoArenaOptions>> }

Request(size, alignment, align_offset, commit, allow_large, req_arena_id, numa_node) ==
  [size |-> size, alignment |-> alignment, align_offset |-> align_offset,
   commit |-> commit, allow_large |-> allow_large, req_arena_id |-> req_arena_id,
   numa_node |-> numa_node]

\* the requests: admissible ones for any arena from every NUMA node, requests
\* that name an arena, and requests the admission filter turns away
SeqRequests ==
  { Request(size, MI_ARENA_BLOCK_ALIGN, 0, TRUE, allow_large, _mi_arena_id_none, numa_node) :
      size \in {MI_ARENA_MIN_OBJ_SIZE, MI_ARENA_BLOCK_SIZE + 1, MI_ARENA_MAX_OBJ_SIZE},
      allow_large \in BOOLEAN, numa_node \in NumaNodes }
  \cup
  { Request(size, MI_ARENA_BLOCK_ALIGN, 0, TRUE, allow_large, req_arena_id, 0) :
      size \in {MI_ARENA_MIN_OBJ_SIZE, MI_ARENA_BLOCK_SIZE + 1},
      allow_large \in BOOLEAN, req_arena_id \in 1 .. 4 }
  \cup
  { Request(shape[1], shape[2], shape[3], FALSE, TRUE, req_arena_id, -1) :
      shape \in { <<MI_ARENA_MIN_OBJ_SIZE - 1, MI_ARENA_BLOCK_ALIGN, 0>>,
                  <<MI_ARENA_MAX_OBJ_SIZE + 1, MI_ARENA_BLOCK_ALIGN, 0>>,
                  <<MI_ARENA_MIN_OBJ_SIZE, 2 * MI_ARENA_BLOCK_ALIGN, 0>>,
                  <<MI_ARENA_MIN_OBJ_SIZE, MI_ARENA_BLOCK_ALIGN, 1>> },
      req_arena_id \in 0 .. 1 }

SeqInit ==
  \E init \in SeqInits : InitWith(init[1], init[2], 1, {"calls", "live"})

\* ranges a caller holds at a time
MaxLive == 2

\* _mi_arena_alloc_aligned is called with request r
AllocCall(t, r) ==
  /\ Cardinality(live) < MaxLive
  /\ AllocBegin(t, r.size, r.alignment, r.align_offset, r.commit, r.allow_large,
             r.req_arena_id, r.numa_node)

SeqNext ==
  \E t \in {1} :
    \/ \E r \in SeqRequests : AllocCall(t, r)
    \/ AllocTryAt(t)
    \/ AllocCommit(t)
    \/ \E os_ok \in BOOLEAN : AllocReserve(t, os_ok, FALSE, FALSE)
    \/ ArenaAddIncrement(t)
    \/ ArenaAddPublish(t)
    \/ \E ok \in BOOLEAN : AllocFallback(t, ok)
    \/ Return(t)
    \/ FreeValid(t)
    \/ FreeRelease(t)

SpecSeq == SeqInit /\ [][SeqNext]_vars

---------------------------------------------------------------------------
(* One thread, one arena that starts uncommitted; free is called with any  *)
(* memid, valid or not, and purges what it frees.                          *)

\* blocks of the arena
OneBlocks == 3

\* the arena memids free may be handed
OneMemids ==
  { mi_memid_create_arena(arena_id, FALSE, block_index) :
      arena_id \in 0 .. 2, block_index \in 0 .. (OneBlocks + 1) }

\* _mi_arena_free with any arena memid and block count
FreeAny(t) ==
  \E memid \in OneMemids : \E blocks \in 1 .. 2 : \E all_committed \in BOOLEAN :
    FreeBegin(t, memid, blocks, all_committed)

OneInit ==
  \E iblocks \in 1 .. 2 :
    InitWith(<<ArenaCfg(OneBlocks, -1, FALSE, FALSE, FALSE, FALSE)>>,
             Options(0, 1, 0, FALSE, FALSE), iblocks, {"before"})

OneNext ==
  \E t \in {1} :
    \/ \E size \in ConcSizes : \E commit \in BOOLEAN :
         AllocBegin(t, size, MI_ARENA_BLOCK_ALIGN, 0, commit, FALSE, _mi_arena_id_none, -1)
    \/ AllocTryAt(t)
    \/ AllocCommit(t)
    \/ \E ok \in BOOLEAN : AllocOsCommit(t, ok, FALSE)
    \/ AllocReserve(t, TRUE, FALSE, FALSE)
    \/ AllocFallback(t, TRUE)
    \/ ReturnNoted(t)
    \/ FreeAny(t)
    \/ FreePurge(t)
    \/ FreeRelease(t)

SpecOne == OneInit /\ [][OneNext]_vars

---------------------------------------------------------------------------
(* One thread, one arena that starts uncommitted, with every purge         *)
(* setting; the caller frees ranges it holds, whole or partly committed,   *)
(* and may free the range it freed last a second time.                     *)

\* blocks of the arena
CommitBlocks == 5

CommitSizes == {MI_ARENA_BLOCK_SIZE, 2 * MI_ARENA_BLOCK_SIZE, 3 * MI_ARENA_BLOCK_SIZE}

\* the caller commits a range it holds (the segment layer commits on demand
\* what the arena handed out uncommitted)
CallerCommit(t) ==
  /\ th[t].pc = "idle"
  /\ \E r \in live :
       /\ ~(Range(r.idx, r.n) \subseteq os_committed[r.arena])
       /\ os_committed' = [os_committed EXCEPT ![r.arena] = @ \cup Range(r.idx, r.n)]
  /\ UNCHANGED <<mi_arenas, mi_arena_count, info_blocks, opts, th, live, noting>>

\* _mi_arena_free of a range the caller holds; committed_size = size only
\* if the whole range is committed
FreeHeld(t) ==
  \E r \in live : \E all_committed \in BOOLEAN :
    /\ all_committed => Range(r.idx, r.n) \subseteq os_committed[r.arena]
    /\ FreeBegin(t, mi_memid_create_arena(mi_arena_id_create(r.arena),
                                          mi_arenas[r.arena].exclusive, r.idx),
                 r.n, all_committed)

\* the free was carried out: it passed the checks of lines 412-420
FreeAccepted(call) ==
  call.op = "free" /\ call.err \notin {"invalid arena", "invalid arena block"}

\* _mi_arena_free of the range that the last call freed
FreeAgain(t) ==
  /\ th[t].prev # NoPrev
  /\ FreeAccepted(th[t].prev)
  /\ th[t].prev.err # "already freed arena block"
  /\ \E all_committed \in BOOLEAN :
       FreeBegin(t, th[t].prev.f_memid, th[t].prev.f_blocks, all_committed)

\* the purge settings: mi_option_purge_delay and mi_option_purge_decommits
CommitPurges == {<<0, TRUE>>, <<0, FALSE>>, <<-1, TRUE>>, <<1, TRUE>>}

\* blocks of the arena descriptor: one, or two with the immediate purge
CommitInfoBlocks(purge) == IF purge = <<0, TRUE>> THEN 1 .. 2 ELSE {1}

\* mi_option_arena_purge_mult: 1, or -1 with the delay of 1
CommitPurgeMults(purge) == IF purge = <<1, TRUE>> THEN {1, -1} ELSE {1}

CommitInit ==
  \E purge \in CommitPurges : \E iblocks \in CommitInfoBlocks(purge) :
  \E mult \in CommitPurgeMults(purge) :
    LET purge_delay == purge[1]
        purge_decommits == purge[2]
    IN
    InitWith(<<ArenaCfg(CommitBlocks, -1, FALSE, FALSE, FALSE, FALSE)>>,
             [Options(0, 1, purge_delay, FALSE, FALSE)
                EXCEPT !.purge_decommits = purge_decommits, !.arena_purge_mult = mult],
             iblocks, {"calls", "live"})

CommitNext ==
  \E t \in {1} :
    \/ \E size \in CommitSizes : \E commit \in BOOLEAN :
         \* the caller holds at most two ranges at a time
         /\ Cardinality(live) < 2
         /\ AllocBegin(t, size, MI_ARENA_BLOCK_ALIGN, 0, commit, FALSE, _mi_arena_id_none, -1)
    \/ AllocTryAt(t)
    \/ AllocCommit(t)
    \/ \E ok \in BOOLEAN : AllocOsCommit(t, ok, FALSE)
    \/ AllocReserve(t, TRUE, FALSE, FALSE)
    \/ AllocFallback(t, TRUE)
    \/ ReturnKept(t)
    \/ CallerCommit(t)
    \/ FreeHeld(t)
    \/ FreeAgain(t)
    \/ \E force_purge \in BOOLEAN : Collect(t, force_purge)
    \/ FreePurge(t)
    \/ FreeRelease(t)

SpecCommit == CommitInit /\ [][CommitNext]_vars

---------------------------------------------------------------------------
(* One thread allocating from an empty registry that grows by              *)
(* mi_arena_reserve; nothing is freed.                                     *)

\* the largest request and the largest arena_reserve of the growth runs
GrowMax == 4 * MI_ARENA_BLOCK_SIZE

\* the arena_reserve option, in bytes: below the smallest arena, two blocks,
\* and four blocks
GrowReserves == {1, 2 * MI_ARENA_BLOCK_SIZE, GrowMax}

GrowSizes == {MI_ARENA_MIN_OBJ_SIZE, 2 * MI_ARENA_BLOCK_SIZE, GrowMax}

GrowInit ==
  \E arena_reserve \in GrowReserves : \E eager_commit \in 0 .. 1 :
  \E disallow_os_alloc \in BOOLEAN :
    InitWith(<<>>, Options(arena_reserve, eager_commit, 0, FALSE, disallow_os_alloc),
             1, {"calls"})

GrowNext ==
  \E t \in {1} :
    \/ \E size \in GrowSizes : \E allow_large \in BOOLEAN :
         AllocBegin(t, size, MI_ARENA_BLOCK_ALIGN, 0, TRUE, allow_large, _mi_arena_id_none, -1)
    \/ AllocTryAt(t)
    \/ AllocCommit(t)
    \/ \E ok \in BOOLEAN : AllocOsCommit(t, ok, FALSE)
    \/ \E os_ok, os_large \in BOOLEAN : AllocReserve(t, os_ok, os_large, FALSE)
    \/ ArenaAddIncrement(t)
    \/ ArenaAddPublish(t)
    \/ \E ok \in BOOLEAN : AllocFallback(t, ok)
    \/ Return(t)

SpecGrow == GrowInit /\ [][GrowNext]_vars

---------------------------------------------------------------------------
(* Two threads calling mi_reserve_os_memory_ex on a registry that is full  *)
(* or has one or two slots left.                                           *)

\* the smallest arena mi_manage_os_memory_ex accepts
SmallArena == ArenaCfg(2, -1, FALSE, FALSE, TRUE, FALSE)

AddInit ==
  \E used \in (MI_MAX_ARENAS - 2) .. MI_MAX_ARENAS :
    InitWith([i \in 1 .. used |-> SmallArena], Options(0, 1, 0, FALSE, FALSE), 1, {"calls"})

AddNext ==
  \E t \in Threads :
    \/ \E size \in {1, 2 * MI_ARENA_BLOCK_SIZE} : \E os_ok \in BOOLEAN :
         ReserveBegin(t, size, TRUE, FALSE, FALSE, os_ok, FALSE)
    \/ ArenaAddIncrement(t)
    \/ ArenaAddRollback(t)
    \/ ArenaAddPublish(t)
    \/ Return(t)

SpecAdd == AddInit /\ [][AddNext]_vars

---------------------------------------------------------------------------
(* Registration and destruction by one thread (SpecReg): regions are       *)
(* adopted, reserved from the OS or from huge OS pages, and the registry   *)
(* is destroyed; nothing is registered after a destroy.                    *)

\* an arena as mi_reserve_os_memory_ex registers it in slot idx
ReservedArena(idx, iblocks) ==
  [mi_arena_init(RegionStart(idx + 1), iblocks + 1, FALSE, -1, FALSE,
                 os_memid(TRUE, FALSE, FALSE), iblocks)
     EXCEPT !.id = mi_arena_id_create(idx)]

RegSizes ==
  { b * MI_ARENA_BLOCK_SIZE + d :
      b \in {info_blocks, info_blocks + 1, MI_BITMAP_MAX_BITS, MI_BITMAP_MAX_BITS + 1},
      d \in {0, 1} }

RegStarts == {0, OsFreshStart, OsFreshStart + 1}

RegPages == 0 .. 3

RegInit ==
  \E iblocks \in 1 .. 2 : \E external \in BOOLEAN :
    LET used == MI_MAX_ARENAS - 2
        arena(i) == IF external
                    THEN ManagedArena(i, ArenaCfg(iblocks + 1, -1, FALSE, FALSE, TRUE, FALSE),
                                      iblocks)
                    ELSE ReservedArena(i, iblocks)
    IN /\ mi_arenas = [i \in ArenaIndices |-> IF i < used THEN arena(i) ELSE NULL]
       /\ mi_arena_count = used
       /\ info_blocks = iblocks
       /\ opts = Options(0, 1, 0, FALSE, FALSE)
       /\ th = [t \in Threads |-> IdleThread]
       /\ live = {}
       /\ os_committed = [i \in ArenaIndices |->
                            IF i < used
                            THEN os_committed_init(arena(i).block_count, arena(i).memid,
                                                   iblocks)
                            ELSE {}]
       /\ noting = {"calls"}

RegNext ==
  \E t \in {1} :
    \/ /\ th[t].prev.op # "destroy"
       /\ \/ \E start \in RegStarts : \E size \in RegSizes : \E is_committed \in BOOLEAN :
               ManageBegin(t, start, size, is_committed, FALSE, FALSE, -1, FALSE)
          \/ \E os_ok \in BOOLEAN :
               ReserveBegin(t, (info_blocks + 1) * MI_ARENA_BLOCK_SIZE, TRUE, FALSE, FALSE,
                            os_ok, FALSE)
          \/ \E pages \in RegPages : \E numa_node \in {-1, 1} :
             \E pages_reserved \in RegPages :
               HugeAtBegin(t, pages, numa_node, pages_reserved)
          \/ \E pages \in RegPages : \E numa_nodes \in {0, 3} :
               InterleaveBegin(t, pages, numa_nodes)
    \/ \E pages_reserved \in RegPages : InterleaveStep(t, pages_reserved)
    \/ ArenaAddIncrement(t)
    \/ ArenaAddRollback(t)
    \/ ArenaAddPublish(t)
    \/ DestroyAll(t)
    \/ ReturnKept(t)

SpecReg == RegInit /\ [][RegNext]_vars

---------------------------------------------------------------------------
(* One thread allocating from and freeing to two adopted arenas (SpecPin): *)
(* the first is pinned, initially committed or both, the second is         *)
(* neither, and the purge is immediate.                                    *)

\* is_large and is_committed as passed to mi_manage_os_memory_ex for the
\* first arena
PinKinds == {<<TRUE, TRUE>>, <<TRUE, FALSE>>, <<FALSE, TRUE>>}

\* blocks of the first arena: block info_blocks cannot be freed (line 417),
\* so a run that is dirty in part needs three blocks after it
PinBlocks == SeqBlocks + 1

PinInit ==
  \E kind \in PinKinds : \E is_zero \in BOOLEAN :
    InitWith(<<ArenaCfg(PinBlocks, -1, FALSE, kind[1], kind[2], is_zero),
               ArenaCfg(SeqBlocks, -1, FALSE, FALSE, FALSE, is_zero)>>,
             Options(0, 1, 0, FALSE, FALSE), 1, {"calls", "live"})

PinNext ==
  \E t \in {1} :
    \/ \E size \in ConcSizes : \E commit \in BOOLEAN :
         \* the caller holds at most two ranges at a time
         /\ Cardinality(live) < 2
         /\ AllocBegin(t, size, MI_ARENA_BLOCK_ALIGN, 0, commit, TRUE, _mi_arena_id_none, -1)
    \/ AllocTryAt(t)
    \/ AllocCommit(t)
    \/ \E ok, commit_zero \in BOOLEAN : AllocOsCommit(t, ok, commit_zero)
    \/ AllocReserve(t, TRUE, FALSE, FALSE)
    \/ AllocFallback(t, TRUE)
    \/ Return(t)
    \/ CallerCommit(t)
    \/ FreeHeld(t)
    \/ FreePurge(t)
    \/ FreeRelease(t)

SpecPin == PinInit /\ [][PinNext]_vars

---------------------------------------------------------------------------
(* Collect calls of several threads, step by step, next to allocation     *)
(* and free on one shared arena.                                           *)

PassDelays == {0, 1}

PassSizes == {MI_ARENA_BLOCK_SIZE}

\* lines 482-483 and 834-837: _mi_arenas_collect enters mi_arenas_try_purge,
\* which returns when nothing can be scheduled or no arena is registered
CollectEnter(t, force_purge) ==
  /\ th[t].pc = "idle"
  /\ LET delay == mi_arena_purge_delay(opts)
         max_arena == mi_arena_count
         me == [IdleThread EXCEPT !.op = "collect", !.force_purge = force_purge,
                                  !.max_arena = max_arena]
     IN th' = [th EXCEPT ![t] =
          IF opts.preloading \/ delay <= 0 \/ max_arena = 0
          THEN [me EXCEPT !.pc = "done"]
          ELSE [me EXCEPT !.pc = "pass"]]
  /\ UNCHANGED <<mi_arenas, mi_arena_count, info_blocks, opts, live, os_committed, noting>>

\* lines 839-843: the pass itself, which reports "purging not yet
\* implemented" and returns
CollectPass(t) ==
  /\ th[t].pc = "pass"
  /\ th' = [th EXCEPT ![t] = [@ EXCEPT !.pc = "done",
                                       !.err = "purging not yet implemented"]]
  /\ mi_arenas' = [i \in ArenaIndices |->
       IF mi_arenas[i] # NULL
       THEN mi_arenas_try_purge_visit(mi_arenas[i], th[t].force_purge,
                                      mi_arena_purge_delay(opts))
       ELSE mi_arenas[i]]
  /\ UNCHANGED <<mi_arena_count, info_blocks, opts, live, os_committed, noting>>

PassInit ==
  \E purge_delay \in PassDelays :
    InitWith(<<ArenaCfg(ConcBlocks, -1, FALSE, FALSE, FALSE, FALSE)>>,
             Options(0, 2, purge_delay, FALSE, FALSE), 1, {"live"})

PassNext ==
  \E t \in Threads :
    \/ \E size \in PassSizes :
         AllocBegin(t, size, MI_ARENA_BLOCK_ALIGN, 0, TRUE, FALSE, _mi_arena_id_none, -1)
    \/ AllocTryAt(t)
    \/ AllocCommit(t)
    \/ AllocOsCommit(t, TRUE, FALSE)
    \/ AllocReserve(t, TRUE, FALSE, TRUE)
    \/ AllocFallback(t, TRUE)
    \/ Return(t)
    \/ FreeValid(t)
    \/ FreePurge(t)
    \/ FreeRelease(t)
    \/ \E force_purge \in BOOLEAN : CollectEnter(t, force_purge)
    \/ CollectPass(t)

SpecPass == PassInit /\ [][PassNext]_vars

---------------------------------------------------------------------------
(* mi_arena_reserve on its own, up to its call of mi_reserve_os_memory_ex, *)
(* for a registry of the size the source gives it.                         *)

\* MI_MAX_ARENAS as the source defines it
MI_MAX_ARENAS_SOURCE == 1024

\* what line 284 loads from mi_arena_count: both ends of the scaled counts
\* and what lies around them
ReserveCounts == 0 .. 130

\* the arena_reserve option, in bytes
ReserveOptions == {0, 1, 3, 4 * MI_ARENA_BLOCK_SIZE, 8 * MI_ARENA_BLOCK_SIZE,
                   32 * MI_ARENA_BLOCK_SIZE}

\* req_size
ReserveSizes == {MI_ARENA_BLOCK_SIZE, 4 * MI_ARENA_BLOCK_SIZE,
                 MI_BITMAP_MAX_BITS * MI_ARENA_BLOCK_SIZE,
                 (MI_BITMAP_MAX_BITS + 1) * MI_ARENA_BLOCK_SIZE}

\* lines 279-322: mi_arena_reserve until it calls mi_reserve_os_memory_ex
ArenaReserveSize(t, arena_count, req_size, req_arena_id) ==
  /\ th[t].pc = "idle"
  /\ LET me == [IdleThread EXCEPT !.op = "arena_reserve", !.pc = "done", !.size = req_size,
                                  !.req_arena_id = req_arena_id, !.max_arena = arena_count]
         arena_reserve == mi_arena_reserve_size(arena_count, opts.arena_reserve,
                                                opts.has_virtual_reserve, info_blocks)
     IN th' = [th EXCEPT ![t] =
          IF \/ opts.preloading
             \/ req_arena_id # _mi_arena_id_none
             \/ arena_count > MI_MAX_ARENAS_SOURCE - 4
             \/ opts.arena_reserve = 0
          THEN [me EXCEPT !.reserved = "refused"]
          ELSE IF arena_reserve < req_size
          THEN [me EXCEPT !.reserved = "refused", !.arena_reserve = arena_reserve]
          ELSE [me EXCEPT !.reserved = "asked", !.arena_reserve = arena_reserve]]
  /\ UNCHANGED <<mi_arenas, mi_arena_count, info_blocks, opts, live, os_committed, noting>>

ReserveInit ==
  \E arena_reserve \in ReserveOptions : \E has_virtual_reserve, preloading \in BOOLEAN :
  \E iblocks \in 1 .. 2 :
    InitWith(<<>>, [Options(arena_reserve, 1, 0, FALSE, FALSE)
                      EXCEPT !.has_virtual_reserve = has_virtual_reserve,
                             !.preloading = preloading],
             iblocks, {})

ReserveNext ==
  \E t \in {1} :
    \/ \E arena_count \in ReserveCounts : \E req_size \in ReserveSizes :
       \E req_arena_id \in {_mi_arena_id_none, 1} :
         ArenaReserveSize(t, arena_count, req_size, req_arena_id)
    \/ Return(t)

SpecReserve == ReserveInit /\ [][ReserveNext]_vars

---------------------------------------------------------------------------
(* Claims about concurrent allocation and free (SpecConc).                 *)

\* C1: under any interleaving of alloc and free (each range freed at most
\* once, with its own size and memid), any two live ranges of the same arena
\* are disjoint, and no range is claimed while it overlaps a live one.
C1_LiveRangesDisjoint ==
  /\ \A a \in live : a.clash = 0
  /\ \A a, b \in live :
       (a # b /\ a.arena = b.arena) => Range(a.idx, a.n) \cap Range(b.idx, b.n) = {}

\* two threads have both just claimed a range of the same arena, after a
\* range of that arena was freed and released
C1_Witness ==
  /\ th[1].pc = "commit" /\ th[2].pc = "commit"
  /\ th[1].arena_index = th[2].arena_index
  /\ Cardinality(live) >= 3
  /\ \E r \in live : r.idx = 1 /\ r.n = 2
  /\ \E r \in live : r.idx = 3 /\ r.n = 1

\* C2: the bits of every range that alloc has claimed and that was not yet
\* passed to free are clear in blocks_free of its arena.
C2_LiveRangesNotFree ==
  \A r \in live : Range(r.idx, r.n) \cap mi_arenas[r.arena].blocks_free = {}

\* a range is live while another thread is releasing a range it freed
C2_Witness ==
  \E t \in Threads : \E r \in live :
    /\ th[t].pc = "release"
    /\ th[t].arena_index = r.arena
    /\ Returned(r)
    /\ r.idx = th[t].block_index + th[t].f_blocks

---------------------------------------------------------------------------
(* Claims about alloc, free and purge on one arena (SpecOne).              *)

\* the call that just finished freed what the call before it allocated, with
\* the same block count and memid
C3_FreedPreviousAlloc(me) ==
  /\ me.op = "free" /\ me.pc = "done"
  /\ me.prev.op = "alloc" /\ me.prev.p = "ARENA"
  /\ me.f_memid.arena_id = mi_arena_id_create(me.prev.arena_index)
  /\ me.f_memid.block_index = me.prev.block_index
  /\ me.f_blocks = me.prev.bcount

\* C3: an arena allocation, at whatever block index it is returned (the
\* first block after the descriptor included), followed at once by free with
\* the same size and memid leaves blocks_free as it was before the allocation.
C3_AllocFreeNeutral ==
  \A t \in Threads :
    C3_FreedPreviousAlloc(th[t]) =>
      mi_arenas[th[t].prev.arena_index].blocks_free = th[t].prev.free_before

\* the same for ranges inside the arena that start above the first block
\* after the descriptor
C3_NeutralAboveFirstBlock ==
  \A t \in Threads :
    (/\ C3_FreedPreviousAlloc(th[t])
     /\ th[t].prev.block_index > info_blocks
     /\ th[t].prev.block_index + th[t].prev.bcount
          <= mi_arenas[th[t].prev.arena_index].block_count)
    => mi_arenas[th[t].prev.arena_index].blocks_free = th[t].prev.free_before

\* a range above the first block was allocated and freed at once
C3_AboveFirstBlockFreed ==
  /\ C3_FreedPreviousAlloc(th[1])
  /\ th[1].prev.block_index > info_blocks
  /\ th[1].prev.block_index + th[1].prev.bcount <= mi_arenas[0].block_count

\* C4: after any sequence of alloc, free (with any memid) and purge, the
\* bits [0, info_blocks) of blocks_free are clear in every arena, and no
\* allocation is returned below block info_blocks.
C4_PrefixNeverFree ==
  /\ \A i \in ArenaIndices :
       mi_arenas[i] # NULL => Range(0, info_blocks) \cap mi_arenas[i].blocks_free = {}
  /\ \A t \in Threads :
       (th[t].op = "alloc" /\ th[t].p = "ARENA") => th[t].block_index >= info_blocks

\* a free has just purged its range, right after a free aimed at the
\* descriptor blocks
C4_Witness ==
  /\ th[1].op = "free" /\ th[1].pc = "release"
  /\ ~mi_arenas[0].memid.initially_committed
  /\ th[1].prev.op = "free" /\ th[1].prev.block_index < info_blocks
  /\ info_blocks = 2

---------------------------------------------------------------------------
(* Claims about placement (SpecSeq: one thread, so a call runs alone).     *)

\* the arena slots a call could see when it started
SnapArena(me, idx) ==
  IF idx \in ArenaIndices /\ idx < me.snap_count THEN me.snap_arenas[idx] ELSE NULL

\* C5: a request for any arena is never served from an exclusive arena, in
\* neither pass nor in the retry after growth.
C5_AnyRequestNeverExclusive ==
  \A t \in Threads :
    (th[t].op = "alloc" /\ th[t].p = "ARENA" /\ th[t].req_arena_id = 0) =>
       /\ ~mi_arenas[th[t].arena_index].exclusive
       /\ ~th[t].memid.is_exclusive

\* a request for any arena was served from a newly reserved arena although
\* an exclusive arena had a free run for it
C5_Witness ==
  /\ th[1].pc = "done" /\ th[1].op = "alloc" /\ th[1].req_arena_id = 0
  /\ th[1].p = "ARENA" /\ th[1].reserved = "yes"
  /\ \E i \in ArenaIndices :
       /\ SnapArena(th[1], i) # NULL
       /\ SnapArena(th[1], i).exclusive
       /\ mi_bitmap_can_find(SnapArena(th[1], i).blocks_free, 1, th[1].bcount)

\* arena X has a run that suits the request that names it: X is registered,
\* the request passes the admission filter, X is not of large pages unless
\* those are allowed, and a chunk of X holds bcount free blocks in a row
C6_SuitableRun(me) ==
  LET x == SnapArena(me, me.req_arena_id - 1)
  IN  /\ me.size >= MI_ARENA_MIN_OBJ_SIZE /\ me.size <= MI_ARENA_MAX_OBJ_SIZE
      /\ me.alignment <= MI_ARENA_BLOCK_ALIGN /\ me.align_offset = 0
      /\ x # NULL
      /\ (me.allow_large \/ ~x.is_large)
      /\ \E idx \in BitmapBits :
           /\ RunInChunk(idx, me.bcount)
           /\ Range(idx, me.bcount) \subseteq x.blocks_free

\* C6: a request that names arena X is served from X when X has a suitable
\* free run, and otherwise returns NULL with ENOMEM; it is never served from
\* another arena or the OS and adds no arena.
C6_NamedArenaOnly ==
  \A t \in Threads :
    (th[t].op = "alloc" /\ th[t].req_arena_id # 0) =>
       /\ th[t].p # "OS" /\ ~th[t].os_called
       /\ th[t].reserved # "yes" /\ th[t].new_arena = NULL
       /\ mi_arena_count = th[t].snap_count
       /\ (th[t].p = "ARENA" => /\ th[t].arena_index = th[t].req_arena_id - 1
                                /\ th[t].memid.arena_id = th[t].req_arena_id)
       /\ (th[t].pc = "done" =>
             IF C6_SuitableRun(th[t])
             THEN th[t].p = "ARENA"
             ELSE th[t].p = "NULL" /\ th[t].errno = "ENOMEM")

\* a request naming a full arena got NULL although another arena had room,
\* the OS was allowed and growth was possible
C6_Witness ==
  /\ th[1].pc = "done" /\ th[1].op = "alloc" /\ th[1].req_arena_id = 2
  /\ th[1].tried /\ th[1].p = "NULL" /\ th[1].errno = "ENOMEM"
  /\ ~opts.disallow_os_alloc /\ opts.arena_reserve # 0
  /\ mi_arena_count <= MI_MAX_ARENAS - 4
  /\ mi_arenas[0].blocks_free # {} /\ ~mi_arenas[0].exclusive

\* C7: a request for any arena from a caller on node n >= 0 is served from
\* an arena bound to another node only after the claim failed, in this call,
\* in every otherwise-suitable arena that is unbound or bound to n; a caller
\* on an unknown node never runs the fallback pass.
C7_NumaFallbackLast ==
  \A t \in Threads :
    /\ (th[t].op = "alloc" /\ th[t].numa_node < 0) => th[t].pass # "B"
    /\ (/\ th[t].op = "alloc" /\ th[t].p = "ARENA" /\ th[t].req_arena_id = 0
        /\ th[t].numa_node >= 0
        /\ mi_arenas[th[t].arena_index].numa_node >= 0
        /\ mi_arenas[th[t].arena_index].numa_node # th[t].numa_node)
       => \A i \in 0 .. (th[t].max_arena - 1) :
            LET a == ArenaAt(i)
            IN (/\ a # NULL
                /\ (th[t].allow_large \/ ~a.is_large)
                /\ ~a.exclusive
                /\ (a.numa_node < 0 \/ a.numa_node = th[t].numa_node))
               => i \in th[t].failed

\* a caller on node 1 was served from the arena of node 0 after the arena of
\* node 1 had no run left
C7_Witness ==
  /\ th[1].pc = "done" /\ th[1].p = "ARENA" /\ th[1].req_arena_id = 0
  /\ th[1].numa_node = 1 /\ th[1].arena_index = 0
  /\ mi_arenas[0].numa_node = 0 /\ mi_arenas[1].numa_node = 1
  /\ th[1].failed = {1}

\* the size, alignment and offset pass the admission filter
C8_FilterPasses(me) ==
  /\ me.size >= MI_ARENA_MIN_OBJ_SIZE /\ me.size <= MI_ARENA_MAX_OBJ_SIZE
  /\ me.alignment <= MI_ARENA_BLOCK_ALIGN /\ me.align_offset = 0

\* C8: a request that the admission filter turns away changes no arena and
\* adds none; it goes to the OS when it names no arena and the OS is allowed,
\* and returns NULL with ENOMEM otherwise. A request of exactly
\* MI_ARENA_MAX_OBJ_SIZE is tried in the arenas.
C8_FilteredRequestFrame ==
  \A t \in Threads :
    /\ (th[t].op = "alloc" /\ ~C8_FilterPasses(th[t])) =>
         /\ ~th[t].tried /\ th[t].reserved = "no" /\ th[t].p # "ARENA"
         /\ mi_arenas = th[t].snap_arenas
         /\ mi_arena_count = th[t].snap_count
         /\ (th[t].pc = "done" =>
               IF th[t].req_arena_id = 0 /\ ~opts.disallow_os_alloc
               THEN th[t].os_called /\ th[t].p \in {"OS", "NULL"}
               ELSE ~th[t].os_called /\ th[t].p = "NULL" /\ th[t].errno = "ENOMEM")
    /\ (/\ th[t].op = "alloc" /\ th[t].size = MI_ARENA_MAX_OBJ_SIZE
        /\ th[t].alignment <= MI_ARENA_BLOCK_ALIGN /\ th[t].align_offset = 0
        /\ (~opts.disallow_arena_alloc \/ th[t].req_arena_id # 0))
       => th[t].tried

\* an over-aligned request went to the OS while an arena had a free run for it
C8_Witness ==
  /\ th[1].pc = "done" /\ th[1].op = "alloc" /\ th[1].p = "OS"
  /\ th[1].alignment > MI_ARENA_BLOCK_ALIGN
  /\ live # {}
  /\ \E i \in ArenaIndices :
       /\ mi_arenas[i] # NULL
       /\ ~mi_arenas[i].exclusive
       /\ mi_bitmap_can_find(mi_arenas[i].blocks_free, 1, th[1].bcount)

\* a request of exactly MI_ARENA_MAX_OBJ_SIZE was served from an arena
C8_MaxSizeServed ==
  /\ th[1].pc = "done" /\ th[1].size = MI_ARENA_MAX_OBJ_SIZE /\ th[1].p = "ARENA"

---------------------------------------------------------------------------
(* Claims about growth (SpecGrow).                                         *)

\* C9: whenever mi_arena_reserve succeeds for a request, the retry claim in
\* the new arena succeeds: the request is served from the new arena and
\* does not go on to the OS.
C9_ReservedArenaServes ==
  \A t \in Threads :
    (th[t].op = "alloc" /\ th[t].reserved = "yes") =>
       /\ th[t].pc # "fallback"
       /\ (th[t].pc = "done" => /\ th[t].p = "ARENA"
                                /\ th[t].arena_index = mi_arena_count - 1)

\* a request that fits the free blocks of the new arena is served from it
C9_FittingRequestServed ==
  \A t \in Threads :
    (/\ th[t].op = "alloc" /\ th[t].reserved = "yes" /\ th[t].pc \in {"fallback", "done"}
     /\ \E idx \in BitmapBits :
          /\ RunInChunk(idx, th[t].bcount)
          /\ Range(idx, th[t].bcount) \subseteq
               Range(info_blocks, mi_arenas[mi_arena_count - 1].block_count - info_blocks))
    => th[t].pc = "done" /\ th[t].p = "ARENA" /\ th[t].arena_index = mi_arena_count - 1

\* mi_arena_reserve turned the request away although the request names no
\* arena, growth is switched on and the size of the next arena covers it
C10_RefusedForSlots(me) ==
  /\ me.op = "alloc" /\ me.reserved = "refused"
  /\ me.req_arena_id = 0 /\ ~opts.preloading /\ opts.arena_reserve # 0
  /\ mi_arena_reserve_size(mi_arena_count, opts.arena_reserve, opts.has_virtual_reserve,
                           info_blocks) >= me.size

\* C10 as stated: growth goes on until the registry holds MI_MAX_ARENAS
\* arenas; only then a reserve attempt fails for lack of slots.
C10_GrowthUntilFull ==
  \A t \in Threads : C10_RefusedForSlots(th[t]) => mi_arena_count >= MI_MAX_ARENAS

\* C10, amended: growth adds an arena only while the registry holds at most
\* MI_MAX_ARENAS - 4 arenas, so it stops at MI_MAX_ARENAS - 3; every later
\* reserve attempt fails and the request goes to the OS, or returns NULL
\* with ENOMEM when OS allocation is disabled.
C10_GrowthStopsEarly ==
  /\ mi_arena_count <= MI_MAX_ARENAS - 3
  /\ \A t \in Threads :
       /\ C10_RefusedForSlots(th[t]) => mi_arena_count = MI_MAX_ARENAS - 3
       /\ (th[t].op = "alloc" /\ th[t].reserved \in {"yes", "failed"}) =>
             th[t].snap_count <= MI_MAX_ARENAS - 4
       /\ (C10_RefusedForSlots(th[t]) /\ th[t].pc = "done") =>
             IF opts.disallow_os_alloc
             THEN th[t].p = "NULL" /\ th[t].errno = "ENOMEM" /\ ~th[t].os_called
             ELSE th[t].os_called /\ th[t].p \in {"OS", "NULL"}

\* the registry holds MI_MAX_ARENAS - 3 arenas, the reserve attempt failed
\* and the request was served by the OS
C10_Witness ==
  /\ th[1].pc = "done" /\ C10_RefusedForSlots(th[1]) /\ th[1].p = "OS"
  /\ mi_arena_count = MI_MAX_ARENAS - 3
  /\ \A i \in 0 .. (MI_MAX_ARENAS - 4) : mi_arenas[i] # NULL /\ mi_arenas[i].blocks_free = {}

---------------------------------------------------------------------------
(* Claims about explicit reservation (SpecAdd).                            *)

\* threads between the increment and the decrement of a failed mi_arena_add
C11_RollbacksPending == Cardinality({t \in Threads : th[t].pc = "add_rollback"})

\* C11: a reserve on a full registry fails cleanly: it returns ENOMEM, no
\* registry slot is written, the OS memory of the would-be arena is freed,
\* and mi_arena_count is back at its value from before the call (apart from
\* the increments of other calls that have not yet been undone).
C11_FullRegistryFailsCleanly ==
  \A t \in Threads :
    (th[t].op = "reserve" /\ th[t].snap_count >= MI_MAX_ARENAS) =>
       \* the call never comes to write a slot
       /\ th[t].pc # "add_publish"
       /\ th[t].pc = "done" =>
            /\ th[t].ret = "ENOMEM"
            /\ th[t].new_arena = NULL
            \* a slot that changed during the call was an empty slot that an
            \* earlier call had been handed
            /\ \A i \in ArenaIndices :
                 mi_arenas[i] # th[t].snap_arenas[i] => th[t].snap_arenas[i] = NULL
            /\ mi_arena_count = MI_MAX_ARENAS + C11_RollbacksPending
            /\ (C11_RollbacksPending = 0 /\ th[t].snap_count = MI_MAX_ARENAS)
                 => mi_arena_count = th[t].snap_count

\* a reserve found the registry full after the OS had given it memory,
\* and has returned
C11_Witness ==
  /\ th[1].op = "reserve" /\ th[1].pc = "done" /\ th[1].snap_count = MI_MAX_ARENAS
  /\ th[1].os_called /\ th[1].arena_index = MI_MAX_ARENAS
  /\ th[2].pc = "idle"

---------------------------------------------------------------------------
(* Claims about addresses.                                                 *)

\* the address alloc returned (line 177)
C12_Ptr(me) == mi_arena_block_start(ArenaAt(mi_arena_id_index(me.memid.arena_id)),
                                    me.memid.block_index)

\* the addresses at the edges of the registered arenas, and the null address
C12_Probes ==
  {0} \cup UNION { { mi_arenas[i].start - 1, mi_arenas[i].start,
                     mi_arenas[i].start + mi_size_of_blocks(mi_arenas[i].block_count) - 1,
                     mi_arenas[i].start + mi_size_of_blocks(mi_arenas[i].block_count) } :
                   i \in {j \in ArenaIndices : mi_arenas[j] # NULL} }

\* address q lies in a registered arena
C12_InSomeArena(q) ==
  \E i \in ArenaIndices :
    /\ mi_arenas[i] # NULL
    /\ mi_arenas[i].start <= q
    /\ q < mi_arenas[i].start + mi_size_of_blocks(mi_arenas[i].block_count)

\* the range a call was handed lies inside the arena its memid names and
\* _mi_arena_contains holds for each of its bytes
C12_InsideAndContained(me) ==
  LET a == ArenaAt(mi_arena_id_index(me.memid.arena_id))
  IN  /\ a # NULL
      /\ a.start <= C12_Ptr(me)
      /\ C12_Ptr(me) + mi_size_of_blocks(me.bcount)
           <= a.start + mi_size_of_blocks(a.block_count)
      /\ \A q \in C12_Ptr(me) .. (C12_Ptr(me) + me.size - 1) :
           \A oob \in BOOLEAN : _mi_arena_contains(q, oob)

\* C12: every range alloc returns with arena provenance lies inside the
\* registered arena its memid names and _mi_arena_contains is true for every
\* byte of it; _mi_arena_contains is false for an address outside every
\* registered arena.
C12_RangesInsideArenas ==
  /\ \A t \in Threads :
       (th[t].op = "alloc" /\ th[t].p = "ARENA") => C12_InsideAndContained(th[t])
  /\ \A q \in C12_Probes :
       ~C12_InSomeArena(q) => \A oob \in BOOLEAN : ~_mi_arena_contains(q, oob)

---------------------------------------------------------------------------
(* Claims about commit and purge (SpecCommit).                             *)

\* the purge is immediate and decommits
C13_PurgesAtOnce == mi_arena_purge_delay(opts) = 0 /\ os_purge_needs_recommit(opts)

\* the call follows a call on the same run of blocks
C13_SameRunAsBefore(me, blocks) ==
  /\ me.prev # NoPrev
  /\ me.arena_index = me.prev.arena_index
  /\ me.block_index = me.prev.block_index
  /\ blocks = IF me.prev.op = "free" THEN me.prev.f_blocks ELSE me.prev.bcount

\* C13: with purge delay 0 and a decommitting purge, after an alloc with
\* commit of the run [i, i+n) and the free of that run, the bits i .. i+n-1
\* of blocks_committed are all clear, for every i and n the allocator can
\* return; the following alloc of the same run commits it again and reports
\* initially_committed as _mi_os_commit returned.
C13_FreeClearsCommitted ==
  \A t \in Threads :
    (C13_PurgesAtOnce /\ th[t].pc = "done") =>
      /\ (/\ th[t].op = "free"
          /\ C13_SameRunAsBefore(th[t], th[t].f_blocks)
          /\ th[t].prev.op = "alloc" /\ th[t].prev.p = "ARENA" /\ th[t].prev.commit)
         => mi_arenas[th[t].arena_index].blocks_committed
              \cap Range(th[t].block_index, th[t].f_blocks) = {}
      /\ (/\ th[t].op = "alloc" /\ th[t].p = "ARENA" /\ th[t].commit
          /\ C13_SameRunAsBefore(th[t], th[t].bcount)
          /\ th[t].prev.op = "free")
         => /\ th[t].os_commit # "none"
            /\ th[t].memid.initially_committed = (th[t].os_commit = "ok")

\* the same for runs that start above the first allocatable block and are
\* no longer than their start index
C13_ClearsShortRuns ==
  \A t \in Threads :
    (/\ C13_PurgesAtOnce /\ th[t].pc = "done"
     /\ th[t].block_index > info_blocks)
    =>
      /\ (/\ th[t].op = "free"
          /\ C13_SameRunAsBefore(th[t], th[t].f_blocks)
          /\ th[t].prev.op = "alloc" /\ th[t].prev.p = "ARENA" /\ th[t].prev.commit
          /\ th[t].f_blocks <= th[t].block_index)
         => mi_arenas[th[t].arena_index].blocks_committed
              \cap Range(th[t].block_index, th[t].f_blocks) = {}
      /\ (/\ th[t].op = "alloc" /\ th[t].p = "ARENA" /\ th[t].commit
          /\ C13_SameRunAsBefore(th[t], th[t].bcount)
          /\ th[t].prev.op = "free"
          /\ th[t].bcount <= th[t].block_index)
         => /\ th[t].os_commit # "none"
            /\ th[t].memid.initially_committed = (th[t].os_commit = "ok")

\* a run of three blocks at index 2 was allocated with commit and freed, and
\* the purge left its first block marked committed
C13_LongRunKeptBit ==
  /\ C13_PurgesAtOnce /\ th[1].pc = "done" /\ th[1].op = "free"
  /\ C13_SameRunAsBefore(th[1], th[1].f_blocks)
  /\ th[1].prev.op = "alloc" /\ th[1].prev.commit
  /\ th[1].block_index = 2 /\ th[1].f_blocks = 3
  /\ 2 \in mi_arenas[0].blocks_committed
  /\ 2 \notin os_committed[0]

\* the call is a free of the range that the call before it freed
C14_SecondFree(me) ==
  /\ me.op = "free" /\ me.prev # NoPrev
  /\ FreeAccepted(me.prev)
  /\ me.f_memid = me.prev.f_memid /\ me.f_blocks = me.prev.f_blocks

\* C14: a second free of a range that was already freed and not allocated
\* again since emits the diagnostic of line 446 and leaves blocks_free as it
\* was before the second free.
C14_SecondFreeKeepsFreeBits ==
  \A t \in Threads :
    C14_SecondFree(th[t]) =>
      /\ mi_arenas[th[t].arena_index].blocks_free
           = th[t].snap_arenas[th[t].arena_index].blocks_free
      /\ th[t].pc = "done" => th[t].err = "already freed arena block"

\* a range of two blocks has been freed twice
C14_Witness ==
  /\ C14_SecondFree(th[1]) /\ th[1].pc = "done" /\ th[1].f_blocks = 2
  /\ th[1].err = "already freed arena block"
  /\ Range(th[1].block_index, 2) \subseteq mi_arenas[0].blocks_free

\* C15: when _mi_os_commit fails during an alloc with commit, the alloc
\* still returns the range it claimed (the pointer is not NULL and the
\* blocks stay claimed) and memid.initially_committed is false.
C15_FailedCommitStillReturns ==
  \A t \in Threads :
    (th[t].op = "alloc" /\ th[t].os_commit = "failed") =>
      /\ th[t].commit
      /\ th[t].pc = "done" /\ th[t].p = "ARENA"
      /\ th[t].memid.memkind = "MI_MEM_ARENA"
      /\ th[t].memid.block_index = th[t].block_index
      /\ ~th[t].memid.initially_committed
      /\ Range(th[t].block_index, th[t].bcount)
           \cap mi_arenas[th[t].arena_index].blocks_free = {}
      /\ \E r \in live : /\ r.arena = th[t].arena_index /\ r.idx = th[t].block_index
                         /\ r.n = th[t].bcount

\* an alloc of two blocks with commit returned after _mi_os_commit failed
C15_Witness ==
  /\ th[1].op = "alloc" /\ th[1].pc = "done" /\ th[1].os_commit = "failed"
  /\ th[1].bcount = 2 /\ th[1].commit

\* C16: the commit bitmap is truthful: after any sequence of allocs, frees
\* and purges (failed OS commits and partly committed frees included),
\* whenever alloc returns an arena range with initially_committed = true,
\* every block of the range is committed in the OS.
C16_ReportedCommittedIsBacked ==
  \A t \in Threads :
    (/\ th[t].op = "alloc" /\ th[t].pc = "done" /\ th[t].p = "ARENA"
     /\ th[t].memid.initially_committed)
    => Range(th[t].block_index, th[t].bcount) \subseteq os_committed[th[t].arena_index]

\* the same for single blocks above index 2: the bits [blocks, blocks +
\* block_idx) that lines 429 and 811 clear cover every freed block above 2
C16_BackedAboveTwo ==
  \A t \in Threads :
    (/\ th[t].op = "alloc" /\ th[t].pc = "done" /\ th[t].p = "ARENA"
     /\ th[t].memid.initially_committed
     /\ th[t].bcount = 1 /\ th[t].block_index > 2)
    => Range(th[t].block_index, th[t].bcount) \subseteq os_committed[th[t].arena_index]

\* no call is in progress
C18_Quiescent == \A t \in Threads : th[t].pc = "idle"

\* C18: in every quiescent state, for every registered arena, each bit set
\* in blocks_purge is also set in blocks_free.
C18_PurgeBitsAreFree ==
  C18_Quiescent =>
    \A i \in ArenaIndices :
      mi_arenas[i] # NULL => mi_arenas[i].blocks_purge \subseteq mi_arenas[i].blocks_free

\* a free with a purge delay above 0 has returned, its range is free again,
\* and the caller holds another range
C18_Witness ==
  /\ C18_Quiescent /\ mi_arena_purge_delay(opts) > 0
  /\ th[1].prev # NoPrev /\ th[1].prev.op = "free"
  /\ th[1].prev.err = "purging not yet implemented"
  /\ Range(th[1].prev.block_index, th[1].prev.f_blocks) \subseteq mi_arenas[0].blocks_free
  /\ live # {}

\* the step is a call of _mi_arenas_collect(force_purge = true) by a thread
\* whose last call was one too
C20_SecondForcedCollect(t) ==
  /\ th[t].pc = "idle" /\ th'[t].op = "collect" /\ th'[t].force_purge
  /\ th[t].prev # NoPrev /\ th[t].prev.op = "collect" /\ th[t].prev.force_purge

\* C20: collect(force) is idempotent: the second of two back-to-back
\* _mi_arenas_collect(true) calls performs no OS purge and changes no bitmap
\* and no purge_expire.
C20_CollectIdempotent ==
  [][ \A t \in Threads :
        C20_SecondForcedCollect(t) =>
          /\ mi_arenas' = mi_arenas
          /\ os_committed' = os_committed ]_vars

\* the second of two forced collects has returned, with a purge delay above
\* 0 and a freed, still committed block in the arena
C20_Witness ==
  /\ th[1].pc = "done" /\ th[1].op = "collect" /\ th[1].force_purge
  /\ th[1].prev # NoPrev /\ th[1].prev.op = "collect" /\ th[1].prev.force_purge
  /\ mi_arena_purge_delay(opts) > 0
  /\ \E b \in mi_arenas[0].blocks_free : b \in mi_arenas[0].blocks_committed

---------------------------------------------------------------------------
(* Claims about frees with any memid (SpecOne).                            *)

\* the memid of the free names an empty slot, or a block index inside the
\* descriptor prefix, or one at or beyond block_count
C17_InvalidMemid(me) ==
  LET arena == ArenaAt(mi_arena_id_index(me.f_memid.arena_id))
  IN  \/ arena = NULL
      \/ me.f_memid.block_index < info_blocks
      \/ me.f_memid.block_index >= arena.block_count

\* the free was refused with one of the errors of lines 413 and 418
C17_Refused(me) == me.pc = "done" /\ me.err \in {"invalid arena", "invalid arena block"}

\* C17: a free whose memid names a NULL slot, or a block index that is not a
\* valid start (inside the prefix, or at or beyond block_count), logs an
\* error and changes no bitmap of any arena.
C17_InvalidFreeChangesNothing ==
  [][ \A t \in Threads :
        (th'[t].op = "free" /\ th'[t] # th[t] /\ C17_InvalidMemid(th'[t]))
        => (C17_Refused(th'[t]) /\ mi_arenas' = mi_arenas) ]_vars

\* the same for the memids that line 417 does refuse: an empty slot, an
\* index inside the prefix, an index beyond block_count
C17_RefusedFreeChangesNothing ==
  [][ \A t \in Threads :
        (/\ th'[t].op = "free" /\ th'[t] # th[t] /\ C17_InvalidMemid(th'[t])
         /\ \/ ArenaAt(mi_arena_id_index(th'[t].f_memid.arena_id)) = NULL
            \/ th'[t].f_memid.block_index
                 # ArenaAt(mi_arena_id_index(th'[t].f_memid.arena_id)).block_count)
        => (C17_Refused(th'[t]) /\ mi_arenas' = mi_arenas) ]_vars

\* a free at block index block_count has set free bits beyond the arena
C17_FreedBeyondArena ==
  /\ th[1].op = "free" /\ th[1].pc = "done" /\ th[1].err = "none"
  /\ th[1].f_memid.block_index = mi_arenas[0].block_count
  /\ mi_arenas[0].block_count \in mi_arenas[0].blocks_free

---------------------------------------------------------------------------
(* Claims about registration and destruction (SpecReg).                    *)

\* the call of thread 1 has returned
RegDone(op) == th[1].pc = "done" /\ th[1].op = op

\* the region given to mi_manage_os_memory_ex is one the claim says is refused
C21_BadRegion ==
  \/ th[1].start = 0
  \/ th[1].start % MI_ARENA_BLOCK_SIZE # 0
  \/ th[1].size \div MI_ARENA_BLOCK_SIZE < info_blocks + 1
  \/ th[1].size \div MI_ARENA_BLOCK_SIZE > MI_BITMAP_MAX_BITS

C22_NoPagesIsNoOp ==
  ((RegDone("huge_at") \/ RegDone("interleave")) /\ th[1].size = 0) =>
    /\ th[1].ret = "0"
    /\ ~th[1].os_called
    /\ th[1].requests = <<>>
    /\ mi_arena_count = th[1].snap_count
    /\ mi_arenas = th[1].snap_arenas

\* mi_reserve_huge_os_pages_at has returned from a request of no pages, made
\* after a call of mi_reserve_huge_os_pages_interleave
C22_Witness ==
  /\ RegDone("huge_at")
  /\ th[1].size = 0
  /\ th[1].ret = "0"
  /\ th[1].prev.op = "interleave"
  /\ mi_arena_count > 0

\* the pages asked for by the first n requests of the call
RECURSIVE C23_Asked(_)
C23_Asked(n) == IF n = 0 THEN 0 ELSE th[1].requests[n][2] + C23_Asked(n - 1)

\* the requests made went to nodes 0, 1, ... in this order, each for
\* floor(pages / N) pages and one more on the first (pages mod N) nodes
C23_RequestsAsStated ==
  LET pages == th[1].size
      N == th[1].numa_count
  IN \A k \in 1 .. Len(th[1].requests) :
       /\ th[1].requests[k][1] = k - 1
       /\ th[1].requests[k][2] =
            (pages \div N) + (IF k - 1 < pages % N THEN 1 ELSE 0)
       /\ th[1].requests[k][2] > 0

\* the arenas of the requests before the last n are registered, in order
C23_EarlierRegistered(n) ==
  /\ mi_arena_count = th[1].snap_count + n
  /\ \A k \in 1 .. n :
       LET arena == mi_arenas[th[1].snap_count + k - 1]
       IN /\ arena # NULL
          /\ arena.memid.memkind = "MI_MEM_OS_HUGE"
          /\ arena.numa_node = (k - 1) % OsNumaNodeCount
  /\ \A i \in ArenaIndices : i < th[1].snap_count => mi_arenas[i] = th[1].snap_arenas[i]

\* C23: mi_reserve_huge_os_pages_interleave(pages, N) asks node after node,
\* in increasing order, for floor(pages / N) pages plus one on the first
\* (pages mod N) nodes, so that the requests sum to pages and differ by at
\* most one; it stops at the first node that fails and returns that error,
\* and the arenas of the earlier nodes stay registered.
C23_InterleaveSplitsEvenly ==
  (RegDone("interleave") /\ th[1].size > 0) =>
    /\ C23_RequestsAsStated
    /\ \A j, k \in 1 .. Len(th[1].requests) :
         th[1].requests[j][2] - th[1].requests[k][2] \in {-1, 0, 1}
    /\ th[1].ret = "0" =>
         /\ C23_Asked(Len(th[1].requests)) = th[1].size
         /\ C23_EarlierRegistered(Len(th[1].requests))
    /\ th[1].ret # "0" =>
         /\ th[1].ret = "ENOMEM"
         /\ Len(th[1].requests) >= 1
         /\ C23_EarlierRegistered(Len(th[1].requests) - 1)

\* three pages over two nodes: node 0 was asked for two and its arena is
\* registered, node 1 was asked for one and failed
C23_Witness ==
  /\ RegDone("interleave")
  /\ th[1].size = 3
  /\ th[1].requests = << <<0, 2>>, <<1, 1>> >>
  /\ th[1].ret = "ENOMEM"
  /\ mi_arena_count = th[1].snap_count + 1

\* every arena the call found registered came from mi_reserve_os_memory
C24_OnlyReserved ==
  \A i \in ArenaIndices :
    th[1].snap_arenas[i] # NULL => th[1].snap_arenas[i].memid.memkind = "MI_MEM_OS"

\* the addresses of the model's memory
C24_Addresses == 0 .. RegionStart(2 * MI_MAX_ARENAS + 3)

\* C24: after any number of calls of mi_reserve_os_memory followed by
\* _mi_arena_unsafe_destroy_all, with no other thread running,
\* mi_arena_count is 0, every slot is NULL and _mi_arena_contains is false
\* for every address.
C24_DestroyAllEmptiesRegistry ==
  (RegDone("destroy") /\ C24_OnlyReserved) =>
    /\ mi_arena_count = 0
    /\ \A i \in ArenaIndices : mi_arenas[i] = NULL
    /\ \A p \in C24_Addresses : \A oob \in BOOLEAN : ~_mi_arena_contains(p, oob)

\* a full registry of reserved arenas, the last one reserved by the call
\* before, has been destroyed
C24_Witness ==
  /\ RegDone("destroy")
  /\ C24_OnlyReserved
  /\ th[1].snap_count = MI_MAX_ARENAS
  /\ th[1].snap_arenas[MI_MAX_ARENAS - 1] # NULL
  /\ th[1].prev.op = "reserve"
  /\ mi_arena_count = 0

\* C29: in a quiescent state every slot that is not NULL has an index below
\* mi_arena_count, also after _mi_arena_unsafe_destroy_all on a registry
\* that holds arenas adopted with mi_manage_os_memory, which are not
\* destroyed.
C29_NonNullSlotsBelowCount ==
  C18_Quiescent =>
    \A i \in ArenaIndices : mi_arenas[i] # NULL => i < mi_arena_count

\* the same while nothing was destroyed
C29_BelowCountBeforeDestroy ==
  (C18_Quiescent /\ th[1].prev.op # "destroy") =>
    \A i \in ArenaIndices : mi_arenas[i] # NULL => i < mi_arena_count

\* the same after a destroy of a registry of arenas that all came from the OS
C29_BelowCountAfterDestroyOfOs ==
  (/\ C18_Quiescent /\ th[1].prev.op = "destroy"
   /\ \A i \in ArenaIndices :
        mi_arenas[i] = NULL \/ mi_memkind_is_os(mi_arenas[i].memid.memkind)) =>
    \A i \in ArenaIndices : mi_arenas[i] # NULL => i < mi_arena_count

\* _mi_arena_unsafe_destroy_all has returned on a registry that held an
\* adopted arena in slot 0 and an arena of the OS above it: slot 0 is kept
\* and mi_arena_count is 0
C29_AdoptedArenaAboveCount ==
  /\ C18_Quiescent /\ th[1].prev.op = "destroy"
  /\ mi_arenas[0] # NULL /\ mi_arenas[0].memid.memkind = "MI_MEM_EXTERNAL"
  /\ mi_arenas[MI_MAX_ARENAS - 1] = NULL
  /\ mi_arena_count = 0

---------------------------------------------------------------------------
(* Claims about the committed bits under free and purge (SpecCommit).      *)

\* C25: for every registered arena, the bits [0, info_blocks) of
\* blocks_committed, those of the arena's own descriptor, stay set through
\* every sequence of alloc, free (of wholly or partly committed ranges) and
\* purge, for any info_blocks >= 1.
C25_InfoBlocksStayCommitted ==
  \A i \in ArenaIndices :
    mi_arenas[i] # NULL => Range(0, info_blocks) \subseteq mi_arenas[i].blocks_committed

\* the same for a descriptor of one block
C25_OneInfoBlockStaysCommitted ==
  info_blocks = 1 =>
    \A i \in ArenaIndices :
      mi_arenas[i] # NULL => Range(0, info_blocks) \subseteq mi_arenas[i].blocks_committed

\* with a descriptor of two blocks, the free of the one block at index 3
\* has cleared the committed bit of block 1
C25_InfoBitCleared ==
  /\ info_blocks = 2
  /\ th[1].pc = "done" /\ th[1].op = "free"
  /\ th[1].block_index = 3 /\ th[1].f_blocks = 1
  /\ 1 \notin mi_arenas[0].blocks_committed

\* the bits of a bitmap that lie outside the run the call frees
C26_OutsideRun(me, bitmap) == bitmap \ Range(me.block_index, me.f_blocks)

\* C26: a free of the run [block_idx, block_idx + blocks), its purge
\* included, changes bits of blocks_committed and blocks_purge only inside
\* the run; the bits of every other block are as they were.
C26_FreeTouchesOnlyItsRun ==
  \A t \in Threads :
    (th[t].op = "free" /\ th[t].pc \in {"purge", "release", "done"}
     /\ FreeAccepted(th[t])) =>
      LET now == mi_arenas[th[t].arena_index]
          before == th[t].snap_arenas[th[t].arena_index]
      IN /\ C26_OutsideRun(th[t], now.blocks_committed) =
              C26_OutsideRun(th[t], before.blocks_committed)
         /\ C26_OutsideRun(th[t], now.blocks_purge) =
              C26_OutsideRun(th[t], before.blocks_purge)

\* the same for the free bits, which line 445 sets with the arguments in
\* their order
C26_FreeBitsOnlyItsRun ==
  \A t \in Threads :
    (th[t].op = "free" /\ th[t].pc \in {"purge", "release", "done"}
     /\ FreeAccepted(th[t])) =>
      C26_OutsideRun(th[t], mi_arenas[th[t].arena_index].blocks_free) =
        C26_OutsideRun(th[t], th[t].snap_arenas[th[t].arena_index].blocks_free)

\* the free of the one block at index 2 has cleared the committed bit of
\* block 1, which the caller still holds
C26_NeighbourBitCleared ==
  /\ info_blocks = 1
  /\ th[1].pc = "done" /\ th[1].op = "free"
  /\ th[1].block_index = 2 /\ th[1].f_blocks = 1
  /\ 1 \in th[1].snap_arenas[0].blocks_committed
  /\ 1 \notin mi_arenas[0].blocks_committed
  /\ \E r \in live : r.idx = 1

\* the call is a free that line 446 detected as a double free
C30_DetectedDoubleFree(me) ==
  me.op = "free" /\ me.pc = "done" /\ me.err = "already freed arena block"

\* C30: a free that is detected as a double free has no side effect: it
\* clears no bit of blocks_committed or blocks_purge and issues no purge or
\* decommit to the OS, under every purge delay, 0 included.
C30_DoubleFreeHasNoEffect ==
  \A t \in Threads :
    C30_DetectedDoubleFree(th[t]) =>
      LET now == mi_arenas[th[t].arena_index]
          before == th[t].snap_arenas[th[t].arena_index]
      IN /\ now.blocks_committed = before.blocks_committed
         /\ now.blocks_purge = before.blocks_purge
         /\ ~th[t].os_purge_called

\* the same where the purge is off or delayed and the second free passes
\* committed_size = size
C30_NoEffectWithoutPurge ==
  \A t \in Threads :
    (C30_DetectedDoubleFree(th[t]) /\ mi_arena_purge_delay(opts) # 0
     /\ th[t].f_all_committed) =>
      LET now == mi_arenas[th[t].arena_index]
          before == th[t].snap_arenas[th[t].arena_index]
      IN /\ now.blocks_committed = before.blocks_committed
         /\ now.blocks_purge = before.blocks_purge
         /\ ~th[t].os_purge_called

\* with purge delay 0, the second free of a range purged the range again
\* before it was detected
C30_PurgedBeforeDetected ==
  /\ C30_DetectedDoubleFree(th[1]) /\ C14_SecondFree(th[1])
  /\ mi_arena_purge_delay(opts) = 0
  /\ th[1].os_purge_called

\* with the purge off, the second free of a range, passed as partly
\* committed, cleared committed bits before it was detected
C30_ClearedBeforeDetected ==
  /\ C30_DetectedDoubleFree(th[1]) /\ C14_SecondFree(th[1])
  /\ mi_arena_purge_delay(opts) < 0
  /\ mi_arenas[0].blocks_committed # th[1].snap_arenas[0].blocks_committed

---------------------------------------------------------------------------
(* Claims about concurrent registration (SpecAdd).                         *)

\* C27: under any interleaving of concurrent registrations, failing ones
\* included, with readers, the value of mi_arena_count that can be observed
\* never exceeds MI_MAX_ARENAS, so that no reader indexes past the array.
C27_CountNeverExceedsMax ==
  /\ mi_arena_count <= MI_MAX_ARENAS
  /\ \A p \in C12_Probes : _mi_arena_contains(p, TRUE) = _mi_arena_contains(p, FALSE)

\* the count exceeds MI_MAX_ARENAS by no more than the failed adds that have
\* not yet undone their increment
C27_ExcessIsPendingRollbacks ==
  mi_arena_count <= MI_MAX_ARENAS + C11_RollbacksPending

\* a registration on a full registry has incremented mi_arena_count and not
\* yet decremented it, while the other thread is about to call a reader
C27_CountPastArray ==
  /\ th[1].pc = "add_rollback"
  /\ th[2].pc = "idle"
  /\ mi_arena_count = MI_MAX_ARENAS + 1

\* the registrations that were handed a slot
C28_Handed ==
  {t \in Threads : \/ th[t].pc = "add_publish"
                   \/ th[t].pc = "done" /\ th[t].op = "reserve" /\ th[t].ret = "0"}

\* distinct slots, ids written with the slot, and readers that pass over
\* the slots not yet published
C28_SlotsAndIds ==
  /\ \A t, u \in C28_Handed : t # u => th[t].arena_index # th[u].arena_index
  /\ \A t \in C28_Handed : th[t].arena_index \in ArenaIndices
  /\ \A i \in ArenaIndices : mi_arenas[i] # NULL => mi_arenas[i].id = i + 1
  /\ \A p \in C24_Addresses : _mi_arena_contains(p, FALSE) = C12_InSomeArena(p)

\* a slot that holds an arena keeps it
C28_AppendOnly ==
  \A i \in ArenaIndices : mi_arenas[i] # NULL => mi_arenas'[i] = mi_arenas[i]

\* C28: concurrent successful registrations obtain pairwise distinct slot
\* indices; every slot i that is not NULL holds an arena whose id is i + 1
\* (the id is written before the slot is published); while nothing is
\* destroyed a slot that is not NULL never changes; and readers pass over a
\* slot below mi_arena_count that is still NULL.
C28_RegistrationsAppendOnly == [](C28_SlotsAndIds) /\ [][C28_AppendOnly]_vars

\* one registration has published its arena while the other, handed the
\* slot before it, has not yet: a NULL slot lies below a published one
C28_Witness ==
  /\ th[1].pc = "done" /\ th[1].op = "reserve" /\ th[1].ret = "0"
  /\ th[2].pc = "add_publish"
  /\ th[2].arena_index < th[1].arena_index
  /\ mi_arenas[th[2].arena_index] = NULL
  /\ mi_arenas[th[1].arena_index] # NULL
  /\ th[1].arena_index < mi_arena_count

---------------------------------------------------------------------------
(* Claims about purging.                                                   *)

\* thread t is inside the decommit step of a free: mi_arena_purge is about
\* to run on its run, or has run and line 445 has not yet been reached
C31_Purging(t) ==
  th[t].op = "free" /\ th[t].pc \in {"purge", "release"}

\* C31: with purge delay 0 and each allocation freed at most once, whenever
\* mi_arena_purge runs on a run, every block of the run is clear in
\* blocks_free from before the purge until it has completed: the free sets
\* the free bits only afterwards, so a concurrent alloc either sees the run
\* as not free or claims it after the purge.
C31_PurgedRunIsNotFree ==
  \A t \in Threads :
    C31_Purging(t) =>
      /\ mi_arenas[th[t].arena_index].blocks_free
           \cap Range(th[t].block_index, th[t].f_blocks) = {}
      /\ \A u \in Threads \ {t} :
           \* an alloc that holds a claim it has not yet returned
           (th[u].op = "alloc" /\ th[u].pc \in {"commit", "oscommit"}
            /\ th[u].arena_index = th[t].arena_index) =>
             Range(th[u].block_index, th[u].bcount)
               \cap Range(th[t].block_index, th[t].f_blocks) = {}

\* thread 1 has purged its run and not yet released it while thread 2, in an
\* alloc, is probing the same arena
C31_Witness ==
  /\ th[1].op = "free" /\ th[1].pc = "release" /\ th[1].os_purge_called
  /\ th[2].op = "alloc" /\ th[2].pc = "try" /\ th[2].i = th[1].arena_index
  /\ mi_arena_purge_delay(opts) = 0

---------------------------------------------------------------------------
(* Claims about pinned and initially committed arenas (SpecPin).           *)

\* no free on arena i has come to the purge
C32_NoPurgeIssued(i) ==
  \A t \in Threads :
    (th[t].op = "free" /\ th[t].arena_index = i) =>
      th[t].pc # "purge" /\ ~th[t].os_purge_called

C32_CommittedNeverPurged ==
  \A i \in ArenaIndices :
    (mi_arenas[i] # NULL /\ mi_arenas[i].memid.initially_committed) =>
      /\ C32_NoPurgeIssued(i)
      /\ mi_arenas[i].blocks_committed = Range(0, mi_arenas[i].block_count)

\* no purge is issued on a pinned arena either
C32_PinnedNeverPurged ==
  \A i \in ArenaIndices :
    (mi_arenas[i] # NULL /\ mi_arenas[i].memid.is_pinned) => C32_NoPurgeIssued(i)

\* a range of a pinned arena that was adopted as not committed has been
\* allocated without commit and freed: its committed bit is clear
C32_PinnedNotCommitted ==
  /\ mi_arenas[0].memid.is_pinned /\ ~mi_arenas[0].memid.initially_committed
  /\ th[1].op = "free" /\ th[1].pc = "done" /\ th[1].arena_index = 0
  /\ th[1].err = "none"
  /\ th[1].block_index \notin mi_arenas[0].blocks_committed
  /\ th[1].block_index \in mi_arenas[0].blocks_free

---------------------------------------------------------------------------
(* Claims about the steps that change the commit state (SpecCommit).       *)

\* the step changes blocks_committed of a registered arena
C33_CommittedChanges ==
  \E i \in ArenaIndices :
    /\ mi_arenas[i] # NULL /\ mi_arenas'[i] # NULL
    /\ mi_arenas'[i].blocks_committed # mi_arenas[i].blocks_committed

\* the step is the commit of a claimed range in alloc (line 192): it sets
\* bits and clears none
C33_CommitOnClaim ==
  \E t \in Threads :
    /\ th[t].op = "alloc" /\ th[t].pc = "commit" /\ th'[t].pc # "commit"
    /\ \A i \in ArenaIndices :
         mi_arenas[i] # NULL =>
           mi_arenas[i].blocks_committed \subseteq mi_arenas'[i].blocks_committed

\* the step is mi_arena_purge (line 811): it clears bits and sets none
C33_PerformPurge ==
  \E t \in Threads :
    /\ th[t].op = "free" /\ th[t].pc = "purge" /\ th'[t].pc # "purge"
    /\ \A i \in ArenaIndices :
         mi_arenas[i] # NULL =>
           mi_arenas'[i].blocks_committed \subseteq mi_arenas[i].blocks_committed

\* the step is the entry of a free of a partly committed range, which marks
\* the range as not committed (line 429): it clears bits and sets none
C33_FreePartlyCommitted ==
  \E t \in Threads :
    /\ th[t].pc = "idle" /\ th'[t].op = "free" /\ th'[t].pc = "purge"
    /\ ~th'[t].f_all_committed
    /\ \A i \in ArenaIndices :
         mi_arenas[i] # NULL =>
           mi_arenas'[i].blocks_committed \subseteq mi_arenas[i].blocks_committed

C34_PurgeDisabled == opts.purge_delay * opts.arena_purge_mult < 0

\* a free of a fully committed range has returned and left the arena's
\* commit bits, purge bits and purge_expire as they were, with no OS purge
C34_FreeLeavesCommitState ==
  \A t \in Threads :
    (th[t].op = "free" /\ th[t].pc = "done" /\ FreeAccepted(th[t])
     /\ th[t].f_all_committed) =>
      LET now == mi_arenas[th[t].arena_index]
          before == th[t].snap_arenas[th[t].arena_index]
      IN /\ ~th[t].os_purge_called
         /\ now.blocks_committed = before.blocks_committed
         /\ now.blocks_purge = before.blocks_purge
         /\ now.purge_expire = before.purge_expire

\* the same while purging is disabled
C34_FreeLeavesWhenDisabled == C34_PurgeDisabled => C34_FreeLeavesCommitState

\* the step is a call of _mi_arenas_collect
C34_CollectStep(t) == th[t].pc = "idle" /\ th'[t].op = "collect"

\* C34: when the effective purge delay (purge_delay x arena_purge_mult) is
\* negative, purging is disabled entirely: a free of a fully committed
\* range issues no OS purge and leaves blocks_committed, blocks_purge and
\* purge_expire unchanged, and collect does nothing.
C34_NegativeDelayDisablesPurge ==
  /\ [](C34_FreeLeavesWhenDisabled)
  /\ [][\A t \in Threads :
          (C34_PurgeDisabled /\ C34_CollectStep(t)) =>
            /\ UNCHANGED <<mi_arenas, os_committed, mi_arena_count>>
            /\ th'[t].err = "none"]_vars

\* with delay 1 and multiplier -1, a free of a committed run of two blocks
\* has returned after a collect, and the run is still committed in the OS
C34_Witness ==
  /\ opts.purge_delay = 1 /\ opts.arena_purge_mult = -1
  /\ th[1].op = "free" /\ th[1].pc = "done" /\ FreeAccepted(th[1])
  /\ th[1].f_all_committed /\ th[1].f_blocks = 2
  /\ th[1].prev.op = "collect"
  /\ Range(th[1].block_index, 2) \subseteq os_committed[0]
  /\ Range(th[1].block_index, 2) \subseteq mi_arenas[0].blocks_free

\* a free of a range of a purgeable arena has returned, with an effective
\* purge delay above 0 and not preloading
C35_DelayedFree(me) ==
  /\ mi_arena_purge_delay(opts) > 0 /\ ~opts.preloading
  /\ me.op = "free" /\ me.pc = "done" /\ FreeAccepted(me)
  /\ ~mi_arenas[me.arena_index].memid.is_pinned
  /\ ~mi_arenas[me.arena_index].memid.initially_committed

\* C35: with an effective purge delay above 0 (and not preloading), a free
\* of a range of a purgeable arena performs no OS purge at that time; it
\* marks exactly the freed range in blocks_purge and updates purge_expire:
\* to now + delay if it was 0, otherwise to the previous value plus
\* delay / 10.
C35_DelayedFreeSchedulesPurge ==
  \A t \in Threads :
    C35_DelayedFree(th[t]) =>
      LET now == mi_arenas[th[t].arena_index]
          before == th[t].snap_arenas[th[t].arena_index]
          delay == mi_arena_purge_delay(opts)
      IN /\ ~th[t].os_purge_called
         /\ now.blocks_purge =
              before.blocks_purge \cup Range(th[t].block_index, th[t].f_blocks)
         \* the clock is above 0, and so is now + delay
         /\ before.purge_expire = 0 => now.purge_expire > 0
         /\ before.purge_expire # 0 =>
              now.purge_expire = before.purge_expire + (delay \div 10)

\* the part of it that is about the OS: the free purges nothing
C35_DelayedFreePurgesNothing ==
  \A t \in Threads :
    C35_DelayedFree(th[t]) =>
      /\ ~th[t].os_purge_called
      /\ th[t].f_all_committed =>
           mi_arenas[th[t].arena_index].blocks_committed
             = th[t].snap_arenas[th[t].arena_index].blocks_committed

\* a delayed free has returned: it reported that purging is not
\* implemented, marked nothing and left purge_expire at 0
C35_NothingScheduled ==
  /\ C35_DelayedFree(th[1])
  /\ th[1].err = "purging not yet implemented"
  /\ mi_arenas[0].blocks_purge = {}
  /\ mi_arenas[0].purge_expire = 0
  /\ Range(th[1].block_index, th[1].f_blocks) \subseteq os_committed[0]

\* a thread is inside the collect pass
C36_InPass(t) == th[t].op = "collect" /\ th[t].pc = "pass"

\* C36: at most one thread executes the collect pass at any time: a thread
\* that calls collect while another thread is inside the pass returns at
\* once, without purging and without changing any bitmap.
C36_OneThreadInPass ==
  /\ Cardinality({t \in Threads : C36_InPass(t)}) <= 1
  /\ \A t \in Threads :
       (th[t].op = "collect" /\ th[t].pc = "done" /\ th[t].err # "none") =>
         \A u \in Threads \ {t} : ~C36_InPass(u)

\* every call of collect leaves the bitmaps, purge_expire and the OS alone
C36_CollectChangesNothing ==
  [][\A t \in Threads :
       (th[t].op = "collect" /\ th'[t] # th[t]) \/ (th'[t].op = "collect" /\ th'[t] # th[t])
         => UNCHANGED <<mi_arenas, mi_arena_count, os_committed>>]_vars

\* both threads are inside the pass at the same time
C36_TwoThreadsInPass == C36_InPass(1) /\ C36_InPass(2)

\* no free or collect is in progress
C37_Quiescent == \A t \in Threads : th[t].op \in {"free", "collect"} => th[t].pc = "done"

\* an arena with a purge pending has its expiry armed
C37_PendingHasExpire ==
  C37_Quiescent =>
    \A i \in ArenaIndices :
      (mi_arenas[i] # NULL /\ mi_arenas[i].blocks_purge # {}) => mi_arenas[i].purge_expire # 0

\* collect(force = true) has returned, and the call before it was a free
\* that came to schedule a delayed purge of its range
C37_ForcedCollectAfterDelayedFree(me) ==
  /\ me.op = "collect" /\ me.pc = "done" /\ me.force_purge
  /\ mi_arena_purge_delay(opts) > 0 /\ ~opts.preloading
  /\ me.prev # NoPrev /\ FreeAccepted(me.prev)
  /\ me.prev.err # "already freed arena block"

\* C37: no purge request is stranded: whenever an arena has a bit set in
\* blocks_purge and no free or collect is in progress, its purge_expire is
\* not 0; so every block scheduled for purge is purged by a later
\* collect(force = true) unless it is allocated again first.
C37_NoPurgeStranded ==
  /\ C37_PendingHasExpire
  /\ \A t \in Threads :
       C37_ForcedCollectAfterDelayedFree(th[t]) =>
         LET i == th[t].prev.arena_index
             run == Range(th[t].prev.block_index, th[t].prev.f_blocks)
         IN \/ run \cap os_committed[i] = {}
            \/ ~(run \subseteq mi_arenas[i].blocks_free)

\* a forced collect has returned after a delayed free and the freed run is
\* free, committed and not marked for purge
C37_Stranded ==
  /\ C37_ForcedCollectAfterDelayedFree(th[1])
  /\ LET run == Range(th[1].prev.block_index, th[1].prev.f_blocks)
     IN /\ run \subseteq mi_arenas[0].blocks_free
        /\ run \subseteq os_committed[0]
        /\ run \subseteq mi_arenas[0].blocks_committed
        /\ mi_arenas[0].blocks_purge = {}
        /\ mi_arenas[0].purge_expire = 0

---------------------------------------------------------------------------
(* Claims about the size of a reserved arena (SpecReserve).                *)

C38_Min(a, b) == IF a < b THEN a ELSE b

C38_Max(a, b) == IF a > b THEN a ELSE b

\* arena_reserve, a quarter of it without virtual reserve, rounded up to
\* the block size
C38_Base ==
  LET r == IF opts.has_virtual_reserve THEN opts.arena_reserve
           ELSE opts.arena_reserve \div 4
  IN CHOOSE b \in r .. (r + MI_ARENA_BLOCK_SIZE - 1) : b % MI_ARENA_BLOCK_SIZE = 0

\* the base, times 2^min(arena_count/8, 16) for the counts 8 .. 128 unless
\* the product overflows the machine word
C38_Scaled(arena_count) ==
  LET product == C38_Base * 2 ^ C38_Min(arena_count \div 8, 16)
  IN IF arena_count \in 8 .. 128 /\ product < 2 ^ SIZE_BITS THEN product ELSE C38_Base

\* the scaled size within its limits
C38_Size(arena_count) ==
  C38_Max((info_blocks + 1) * MI_ARENA_BLOCK_SIZE,
          C38_Min(MI_BITMAP_MAX_BITS * MI_ARENA_BLOCK_SIZE, C38_Scaled(arena_count)))

\* C38: the size of an automatically reserved arena is, for every
\* arena_count, the base (arena_reserve, a quarter of it without virtual
\* reserve, rounded up to the block size), times 2^min(arena_count/8, 16)
\* exactly for 8 <= arena_count <= 128 (unscaled when the product
\* overflows), clamped between info_blocks + 1 blocks and
\* MI_BITMAP_MAX_BITS blocks; the reserve is refused when arena_reserve is
\* 0, while preloading, when a specific arena was requested, and when the
\* final size is below the request.
C38_ReserveSize ==
  \A t \in Threads :
    (th[t].op = "arena_reserve" /\ th[t].pc = "done") =>
      /\ th[t].reserved = "asked" => th[t].arena_reserve = C38_Size(th[t].max_arena)
      /\ (\/ opts.arena_reserve = 0
          \/ opts.preloading
          \/ th[t].req_arena_id # _mi_arena_id_none
          \/ C38_Size(th[t].max_arena) < th[t].size) => th[t].reserved = "refused"
      /\ th[t].reserved \in {"asked", "refused"}

\* the reserve asks for a scaled size below the upper limit
C38_Witness ==
  /\ th[1].op = "arena_reserve" /\ th[1].pc = "done" /\ th[1].reserved = "asked"
  /\ th[1].max_arena \in 16 .. 23
  /\ th[1].arena_reserve = 4 * C38_Base
  /\ th[1].arena_reserve < MI_BITMAP_MAX_BITS * MI_ARENA_BLOCK_SIZE
  /\ th[1].arena_reserve > (info_blocks + 1) * MI_ARENA_BLOCK_SIZE

\* the product overflows at the last scaled count and the size stays the base
C38_Overflowed ==
  /\ th[1].op = "arena_reserve" /\ th[1].pc = "done" /\ th[1].reserved = "asked"
  /\ th[1].max_arena = 128
  /\ th[1].arena_reserve = C38_Base
  /\ C38_Base > (info_blocks + 1) * MI_ARENA_BLOCK_SIZE
  /\ C38_Base < MI_BITMAP_MAX_BITS * MI_ARENA_BLOCK_SIZE

\* past the last scaled count the size is the lower limit
C38_Unscaled ==
  /\ th[1].op = "arena_reserve" /\ th[1].pc = "done" /\ th[1].reserved = "asked"
  /\ th[1].max_arena = 129
  /\ C38_Base * 2 ^ 16 < 2 ^ SIZE_BITS
  /\ th[1].arena_reserve = (info_blocks + 1) * MI_ARENA_BLOCK_SIZE

---------------------------------------------------------------------------
(* Claims about zeroed memory (SpecPin).                                   *)

\* an allocation has returned a range of an arena
C39_Claimed(me) == me.op = "alloc" /\ me.pc = "done" /\ me.p = "ARENA"

\* the range is reported zero only for one of the two reasons, and a claim
\* in an arena that was initially zero leaves its range dirty
C39_ZeroOnlyIfCleanOrCommitZero ==
  \A t \in Threads :
    C39_Claimed(th[t]) =>
      LET before == th[t].snap_arenas[th[t].arena_index]
          run == Range(th[t].block_index, th[t].bcount)
      IN /\ th[t].memid.initially_zero =>
              \/ before.memid.initially_zero /\ run \cap before.blocks_dirty = {}
              \/ th[t].commit_zero
         /\ before.memid.initially_zero =>
              run \subseteq mi_arenas[th[t].arena_index].blocks_dirty

C39_CleanIsZero ==
  /\ C39_Claimed(th[1]) /\ ~th[1].commit_zero /\ th[1].memid.initially_zero
  /\ mi_arenas[th[1].arena_index].blocks_free # {}

\* a dirty range is reported zero because the OS commit zeroed it
C39_CommitZeroed ==
  /\ C39_Claimed(th[1]) /\ th[1].commit_zero /\ th[1].memid.initially_zero
  /\ Range(th[1].block_index, th[1].bcount)
       \cap th[1].snap_arenas[th[1].arena_index].blocks_dirty # {}

\* an arena that was not initially zero keeps no dirty bits for its claims
C39_NotTracked ==
  /\ C39_Claimed(th[1])
  /\ ~mi_arenas[th[1].arena_index].memid.initially_zero
  /\ Range(th[1].block_index, th[1].bcount)
       \cap mi_arenas[th[1].arena_index].blocks_dirty = {}

---------------------------------------------------------------------------
(* Claims about the length of an allocation (SpecFill).                    *)

\* the steps of _mi_arena_alloc_aligned after its entry
AllocStep(t) ==
  \/ AllocTryAt(t)
  \/ AllocCommit(t)
  \/ \E ok, commit_zero \in BOOLEAN : AllocOsCommit(t, ok, commit_zero)
  \/ \E os_ok \in BOOLEAN : AllocReserve(t, os_ok, FALSE, FALSE)
  \/ ArenaAddIncrement(t)
  \/ ArenaAddRollback(t)
  \/ ArenaAddPublish(t)
  \/ \E ok \in BOOLEAN : AllocFallback(t, ok)

\* the registries and options the allocations start from
FillInits ==
  { <<NumaRegistry, GrowingOptions>>, <<NumaRegistry, NoOsOptions>>,
    <<ExclusiveRegistry, NoOsOptions>>, <<NumaRegistry, NoArenaOptions>> }

\* admissible requests from every NUMA node, requests that name an arena
\* and a request the admission filter turns away
FillRequests ==
  { Request(size, MI_ARENA_BLOCK_ALIGN, 0, TRUE, FALSE, _mi_arena_id_none, numa_node) :
      size \in {MI_ARENA_MIN_OBJ_SIZE, MI_ARENA_BLOCK_SIZE + 1},
      numa_node \in NumaNodes }
  \cup
  { Request(MI_ARENA_MIN_OBJ_SIZE, MI_ARENA_BLOCK_ALIGN, 0, TRUE, FALSE, req_arena_id, 0) :
      req_arena_id \in 1 .. 3 }
  \cup
  { Request(MI_ARENA_MIN_OBJ_SIZE, MI_ARENA_BLOCK_ALIGN, 1, FALSE, FALSE, _mi_arena_id_none, -1) }

FillInit ==
  \E init \in FillInits : InitWith(init[1], init[2], 1, {"calls"})

\* allocations only: the arenas fill up and new ones are reserved
FillNext ==
  \E t \in {1} :
    \/ \E r \in FillRequests :
         AllocBegin(t, r.size, r.alignment, r.align_offset, r.commit, r.allow_large,
                    r.req_arena_id, r.numa_node)
    \/ AllocTryAt(t)
    \/ AllocCommit(t)
    \/ \E os_ok \in BOOLEAN : AllocReserve(t, os_ok, FALSE, FALSE)
    \/ ArenaAddIncrement(t)
    \/ ArenaAddPublish(t)
    \/ \E ok \in BOOLEAN : AllocFallback(t, ok)
    \/ Return(t)

\* the scheduler lets a thread that is inside a call take its next step
SpecFill == FillInit /\ [][FillNext]_vars /\ \A t \in {1} : WF_vars(AllocStep(t))

\* slots a pass can visit: mi_arena_count is at most MI_MAX_ARENAS + 1
C40_PassLen == MI_MAX_ARENAS + 2

\* how far the call has come: the first pass, the second pass, the
\* reserve, the retry in the new arena, the commit, the OS, the return
C40_Rank(me) ==
  CASE me.pc = "try" /\ me.pass \in {"specific", "A"} -> 1 + me.i
    [] me.pc = "try" /\ me.pass = "B" -> 1 + C40_PassLen + me.i
    [] me.pc = "reserve" -> 1 + 2 * C40_PassLen
    [] me.pc = "add" -> 2 + 2 * C40_PassLen
    [] me.pc \in {"add_publish", "add_rollback"} -> 3 + 2 * C40_PassLen
    [] me.pc = "try" /\ me.pass = "G" -> 4 + 2 * C40_PassLen
    [] me.pc = "commit" -> 5 + 2 * C40_PassLen
    [] me.pc = "oscommit" -> 6 + 2 * C40_PassLen
    [] me.pc = "fallback" -> 7 + 2 * C40_PassLen
    [] me.pc = "done" -> 8 + 2 * C40_PassLen
    [] OTHER -> 0

\* every step of an allocation takes it further: no arena is probed twice
\* in a pass, no pass, reserve or fallback is gone through twice
C40_StepAdvances ==
  \A t \in Threads :
    (th[t].op = "alloc" /\ th'[t] # th[t]) =>
      \/ th[t].pc = "done" /\ th'[t].pc = "idle"
      \/ /\ th'[t].op = "alloc"
         /\ C40_Rank(th'[t]) > C40_Rank(th[t])
         /\ C40_Rank(th[t]) > 0

\* what the call is doing is within what the claim allows
C40_WithinFlow ==
  \A t \in Threads :
    th[t].op = "alloc" =>
      /\ C40_Rank(th[t]) \in 1 .. (8 + 2 * C40_PassLen)
      \* a pass visits registered slots only
      /\ (th[t].pc = "try" /\ th[t].pass \in {"specific", "A", "B"}) =>
            th[t].i < th[t].max_arena
      \* the second pass is for callers with a NUMA node
      /\ (th[t].pc = "try" /\ th[t].pass = "B") => th[t].numa_node >= 0
      \* the retry is in the arena just reserved
      /\ (th[t].pc = "try" /\ th[t].pass = "G") =>
            /\ th[t].reserved = "yes" /\ th[t].os_called
            /\ th[t].i >= th[t].max_arena
            /\ mi_arenas[th[t].i] # NULL
            /\ mi_arenas[th[t].i].memid.memkind = "MI_MEM_OS"
      \* the outcome
      /\ th[t].pc = "done" =>
            \/ th[t].p = "ARENA"
            \/ th[t].p = "OS"
            \/ /\ th[t].p = "NULL"
               /\ \/ th[t].os_called
                  \/ th[t].errno = "ENOMEM" /\ th[t].memid = _mi_memid_none
      \* the call can take its next step
      /\ th[t].pc # "done" => ENABLED AllocStep(t)

\* C40: every _mi_arena_alloc_aligned call ends after a bounded number of
\* steps and without retry loops: it probes each registered arena at most
\* once per NUMA pass, in at most two passes, calls mi_arena_reserve at most
\* once, retries only in the arena just reserved, and then falls back to
\* the OS once or returns NULL with errno = ENOMEM and a memid without
\* provenance.
C40_AllocTerminates ==
  /\ [](C40_WithinFlow)
  /\ [][C40_StepAdvances]_vars
  /\ \A t \in Threads : (th[t].op = "alloc") ~> (th[t].op = "alloc" /\ th[t].pc = "done")

\* the call went through both passes over two full arenas, reserved a third
\* and was served from it
C40_Witness ==
  /\ th[1].op = "alloc" /\ th[1].pc = "done" /\ th[1].p = "ARENA"
  /\ th[1].numa_node >= 0 /\ th[1].max_arena = 2
  /\ {0, 1} \subseteq th[1].failed
  /\ th[1].reserved = "yes" /\ th[1].pass = "G" /\ th[1].arena_index = 2

\* the call went through both passes, was refused a new arena and was
\* served by the OS
C40_ServedByOs ==
  /\ th[1].op = "alloc" /\ th[1].pc = "done" /\ th[1].p = "OS"
  /\ th[1].numa_node >= 0 /\ {0, 1} \subseteq th[1].failed
  /\ th[1].reserved = "refused"

\* the call found nothing, could not reserve and may not use the OS
C40_OutOfMemory ==
  /\ th[1].op = "alloc" /\ th[1].pc = "done" /\ th[1].p = "NULL"
  /\ ~th[1].os_called /\ th[1].errno = "ENOMEM" /\ th[1].memid = _mi_memid_none
  /\ th[1].tried

=============================================================================
